---- MODULE Spec2Model ----
(***************************************************************************)
(* barebrowse: the CDP transport (cdp.js, createCDP), the page handle      *)
(* returned by connect() and the one-shot browse() pipeline (index.js),    *)
(* the interactions (interact.js) and the pruning of snapshots (prune.js). *)
(*                                                                         *)
(* Nine specifications share the module:                                   *)
(*   SpecCDP    - one createCDP client on one WebSocket: send and replies  *)
(*   SpecEvents - the same client's listeners: on, once, session views     *)
(*   SpecIndex  - one page handle made by connect(), or one call of        *)
(*                browse(); the client below it is seen through what its   *)
(*                send() promises do: resolve, reject, or never settle     *)
(*   SpecDialog - connect() from its storage-state step, and the dialogs   *)
(*                of the page                                              *)
(*   SpecWait   - navigate() and waitForNetworkIdle() against a clock      *)
(*   SpecTree   - buildTree() on the node batches a document gives         *)
(*   SpecPrune  - prune() on snapshot trees, in each mode, run once and    *)
(*                again on its own result                                  *)
(*   SpecLaunch - one launch() of a browser followed to its end, and the   *)
(*                call of connect() or browse() that awaits it             *)
(*   SpecProfiles - several launches and the profile directory of each     *)
(* Each one holds the variables of the others at their initial value.      *)
(***************************************************************************)
EXTENDS Integers, Naturals, Sequences, FiniteSets, TLC

VARIABLES
    \* ---- createCDP (cdp.js) ----
    nextId,       \* let nextId = 1
    pending,      \* keys of the pending Map (id -> {resolve, reject})
    listeners,    \* listeners Map: key -> callbacks in insertion order
    wsState,      \* readyState of ws: "open" | "closed"
    closeCause,   \* why ws left OPEN: "none" | "error" | "peer" | "client"
    wire,         \* frames ws.send() really transmitted
    promise,      \* state of the promise send() returned, per id
    settledBy,    \* what called resolve/reject of that promise
    settleCalls,  \* how often handler.resolve/handler.reject ran, per id
    sentWhen,     \* wsState at the moment send() ran, per id
    inbound,      \* the inbound message ws.onmessage handled last
    dispatched,   \* callback invocations of the last event dispatch
    waits,        \* the promises once() returned, by closure: state and listener key
    \* ---- connect() / browse() (index.js) ----
    api,          \* the export in use: "connect" (a page handle) | "browse"
    opts,         \* the opts of the call: mode, consent, cookies
    browser,      \* let browser: the launched child, or null
    cdp,          \* let cdp: "null", or the client by the state of its socket:
                  \* "open" | "closed"
    attached,     \* the browser process the client is connected to
    killed,       \* processes on which process.kill() was called
    log,          \* teardown and attach effects, in order
    landed,       \* what the page shows: "normal" | "challenge"
    refMap,       \* let refMap = new Map()
    prevRefMap,   \* refMap as it was before the last snapshot() replaced it
    snapNodes,    \* the raw nodes the last snapshot() got
    snapText,     \* the text the last snapshot() returned
    opName,       \* the handle method in progress, or "idle"
    opArgs,       \* its arguments
    opPc,         \* the step of its script that is awaited
    opSent,       \* the CDP commands it passed to send(), in order
    lastOp,       \* the method that settled last, its arguments and result
                  \* ("none" while a method is in progress)
    bpc,          \* browse(): the pipeline step in progress
    trees,        \* browse(): the raw nodes each ariaTree() got, in order
    returned,     \* browse(): the value returned
    \* ---- the page session of connect() (index.js) ----
    session,      \* connect(): the step reached, opts.storageState, cookies set
    dialogLog,    \* const dialogLog = []
    dialogAcks,   \* the Page.handleJavaScriptDialog commands passed to send()
    now,          \* the clock, in ticks
    nav,          \* navigate(): the step awaited, loadPromise and its timer
    netIdle,      \* waitForNetworkIdle(): its promise, counter and timers
    \* ---- buildTree (index.js), prune (prune.js): arguments and results ----
    rawBatch,     \* buildTree(nodes): the raw nodes
    built,        \* what buildTree returned, once it has run
    pruneIn,      \* prune(tree, { mode }): the tree
    pruneMode,    \* prune(tree, { mode }): the mode
    pruneOut,     \* what prune returned: for pruneIn, then for its own result
    inputAfter,   \* the objects of pruneIn as the caller reads them after the call
    \* ---- launch() (chromium.js) and the call that awaits it ----
    launches      \* the calls of launch() so far: child, stderr, timer, promise, caller

tvars == <<nextId, pending, listeners, wsState, closeCause, wire, promise, settledBy,
           settleCalls, sentWhen, inbound, dispatched, waits>>

hvars == <<api, opts, browser, cdp, attached, killed, log, landed, refMap, prevRefMap,
           snapNodes, snapText, opName, opArgs, opPc, opSent, lastOp>>
bvars == <<bpc, trees, returned>>
svars == <<session, dialogLog, dialogAcks, now, nav, netIdle>>
pvars == <<rawBatch, built, pruneIn, pruneMode, pruneOut, inputAfter>>
lvars == <<launches>>
ivars == <<hvars, bvars, svars, pvars, lvars>>
vars == <<tvars, ivars>>


(***************************************************************************)
(* Bounds                                                                  *)
(***************************************************************************)
MaxSends == 2
MaxListeners == 1
MaxWaits == 2
MaxDialogs == 2
MaxClock == 4
MaxRequests == 2
MaxRaw == 3
MaxChildren == 2
MaxItems == 3
MaxLaunches == 2
MaxChunks == 2
MaxStamp == 1
\* setTimeout(..., 10000) of launch(): 10 s, in ticks of 5 s
LaunchTimeout == 2

(***************************************************************************)
(* createCDP: values                                                       *)
(***************************************************************************)
NoId == -1                 \* msg.id === undefined
NoMethod == "none"         \* msg.method absent
NoSession == "none"        \* no sessionId
Sessions == {"S1", "S2"}
EventMethods == {"Page.loadEventFired"}
Commands == {"Page.navigate"}
Callbacks == {"cb1", "cb2"}

Ids == 1..MaxSends

\* the once() calls that may be waiting at the same time, and the callback
\* each of them passes to client.on
Waits == 1..MaxWaits
OnceCallback(w) == "once" \o ToString(w)
NoWait == [state |-> "none", method |-> NoMethod, sessionId |-> NoSession]

\* `${sessionId}:${method}` or method
ListenerKey(method, sessionId) == <<sessionId, method>>

ListenerKeys == {ListenerKey(m, s) : m \in EventMethods, s \in Sessions \cup {NoSession}}

\* the JSON messages the socket may deliver: a response (id, result or
\* error), an event (method, optional sessionId), a frame with neither
Responses ==
    [id : 0..MaxSends, method : {NoMethod}, sessionId : {NoSession}, error : BOOLEAN]

Events ==
    [id : {NoId}, method : EventMethods, sessionId : {NoSession} \cup Sessions,
     error : {FALSE}]

NoMessage == [id |-> NoId, method |-> NoMethod, sessionId |-> NoSession, error |-> FALSE]

InboundMessages == Responses \cup Events \cup {NoMessage}

RECURSIVE SeqToSet(_)
SeqToSet(s) == IF s = <<>> THEN {} ELSE {Head(s)} \cup SeqToSet(Tail(s))

RECURSIVE SeqRemove(_, _)
SeqRemove(s, x) ==
    IF s = <<>> THEN <<>>
    ELSE IF Head(s) = x THEN SeqRemove(Tail(s), x)
    ELSE <<Head(s)>> \o SeqRemove(Tail(s), x)

RECURSIVE SumLen(_, _)
SumLen(f, keys) ==
    IF keys = {} THEN 0
    ELSE LET k == CHOOSE x \in keys : TRUE
         IN Len(f[k]) + SumLen(f, keys \ {k})

(***************************************************************************)
(* createCDP: Init                                                         *)
(***************************************************************************)
InitCDP ==
    /\ nextId = 1
    /\ pending = {}
    /\ listeners = [k \in ListenerKeys |-> <<>>]
    /\ wsState = "open"
    /\ closeCause = "none"
    /\ wire = {}
    /\ promise = [i \in Ids |-> "none"]
    /\ settledBy = [i \in Ids |-> [by |-> "none", msgId |-> NoId]]
    /\ settleCalls = [i \in Ids |-> 0]
    /\ sentWhen = [i \in Ids |-> "none"]
    /\ inbound = NoMessage
    /\ dispatched = <<>>
    /\ waits = [w \in Waits |-> NoWait]

(***************************************************************************)
(* client.send(method, params, sessionId)                                  *)
(***************************************************************************)
\* ws.send(data): a WebSocket that is no longer OPEN discards the frame
\* without throwing (only CONNECTING throws), so nothing reaches the wire
WsSend(state, frame) == IF state = "open" THEN {frame} ELSE {}

Send(method, sessionId) ==
    /\ nextId <= MaxSends
    /\ LET id == nextId
           msg == [id |-> id, method |-> method, sessionId |-> sessionId]
       IN /\ nextId' = nextId + 1
          /\ pending' = pending \cup {id}
          /\ promise' = [promise EXCEPT ![id] = "pending"]
          /\ sentWhen' = [sentWhen EXCEPT ![id] = wsState]
          /\ wire' = wire \cup WsSend(wsState, msg)
    /\ UNCHANGED <<ivars, waits, listeners, wsState, closeCause, settledBy, settleCalls, inbound,
                   dispatched>>

(***************************************************************************)
(* ws.onmessage                                                            *)
(***************************************************************************)
\* const handler = pending.get(msg.id): the ids whose handler is taken
LookupOldest(pend, msgId) ==
    IF pend = {} THEN {} ELSE {CHOOSE i \in pend : \A j \in pend : i <= j}
Lookup(pend, msgId) == IF msgId \in pend THEN {msgId} ELSE {}

\* pending.delete(msg.id) once the handler was found
DeleteEntry(pend, msgId) == pend \ {msgId}

\* no callback of the dispatch throws
NoThrow == "none"

\* the callbacks an event reaches: session-scoped listeners first (they get
\* params only), then the global ones (they get params and msg.sessionId)
DispatchGlobalFirst(ls, msg) ==
    LET scoped == IF msg.sessionId # NoSession
                  THEN ls[ListenerKey(msg.method, msg.sessionId)]
                  ELSE <<>>
        global == ls[ListenerKey(msg.method, NoSession)]
    IN [i \in 1..Len(global) |->
           [cb |-> global[i], scope |-> NoSession, arg2 |-> msg.sessionId]]
       \o
       [i \in 1..Len(scoped) |->
           [cb |-> scoped[i], scope |-> msg.sessionId, arg2 |-> NoSession]]
Dispatch(ls, msg) ==
    LET scoped == IF msg.sessionId # NoSession
                  THEN ls[ListenerKey(msg.method, msg.sessionId)]
                  ELSE <<>>
        global == ls[ListenerKey(msg.method, NoSession)]
    IN [i \in 1..Len(scoped) |->
           [cb |-> scoped[i], scope |-> msg.sessionId, arg2 |-> NoSession]]
       \o
       [i \in 1..Len(global) |->
           [cb |-> global[i], scope |-> NoSession, arg2 |-> msg.sessionId]]

OnMessageResponse(msg) ==
    /\ wsState = "open"
    /\ msg.id # NoId
    /\ inbound' = msg
    /\ LET hit == Lookup(pending, msg.id)
       IN IF hit # {}
          THEN /\ pending' = DeleteEntry(pending, msg.id)
               /\ promise' = [i \in Ids |->
                     IF i \in hit /\ promise[i] = "pending"
                     THEN (IF msg.error THEN "rejected" ELSE "resolved")
                     ELSE promise[i]]
               /\ settledBy' = [i \in Ids |->
                     IF i \in hit /\ promise[i] = "pending"
                     THEN [by |-> "response", msgId |-> msg.id]
                     ELSE settledBy[i]]
               /\ settleCalls' = [i \in Ids |->
                     IF i \in hit THEN settleCalls[i] + 1 ELSE settleCalls[i]]
          ELSE UNCHANGED <<pending, promise, settledBy, settleCalls>>
    /\ UNCHANGED <<ivars, waits, nextId, listeners, wsState, closeCause, wire, sentWhen,
                   dispatched>>

\* the unsubscribe function on() returns: listeners.get(key).delete(callback)
Unsub(ls, key, cb) == [ls EXCEPT ![key] = SeqRemove(@, cb)]

\* the listeners after the once() callbacks of the waits ws have run unsub()
RECURSIVE UnsubWaits(_, _, _)
UnsubWaits(ls, wt, ws) ==
    IF ws = {} THEN ls
    ELSE LET w == CHOOSE x \in ws : TRUE
         IN UnsubWaits(Unsub(ls, ListenerKey(wt[w].method, wt[w].sessionId), OnceCallback(w)),
                       wt, ws \ {w})

\* the waits whose callback a dispatch invoked
Fired(calls) == {w \in Waits : \E i \in 1..Len(calls) : calls[i].cb = OnceCallback(w)}

\* for (const cb of ...) cb(...): the calls made when the callback thrower
\* throws: the exception leaves both loops and ws.onmessage
InvokedAll(calls, thrower) == calls
Invoked(calls, thrower) ==
    LET throwing == {i \in 1..Len(calls) : calls[i].cb = thrower}
    IN IF throwing = {} THEN calls
       ELSE SubSeq(calls, 1, CHOOSE i \in throwing : \A j \in throwing : i <= j)

OnMessageEvent(msg, thrower) ==
    /\ wsState = "open"
    /\ msg.id = NoId
    /\ inbound' = msg
    /\ dispatched' = IF msg.method # NoMethod
                     THEN Invoked(Dispatch(listeners, msg), thrower) ELSE <<>>
    /\ listeners' = UnsubWaits(listeners, waits, Fired(dispatched'))
    /\ waits' = [w \in Waits |->
          IF w \in Fired(dispatched') THEN [NoWait EXCEPT !.state = "resolved"]
          ELSE waits[w]]
    /\ UNCHANGED <<ivars, nextId, pending, wsState, closeCause, wire, promise, settledBy,
                   settleCalls, sentWhen>>

(***************************************************************************)
(* ws.onerror, the socket closing, client.close()                          *)
(***************************************************************************)
\* ws.onerror: reject and delete every pending entry; the socket is closed
\* after an error event
WsError ==
    /\ wsState = "open"
    /\ wsState' = "closed"
    /\ closeCause' = "error"
    /\ pending' = {}
    /\ promise' = [i \in Ids |-> IF i \in pending THEN "rejected" ELSE promise[i]]
    /\ settledBy' = [i \in Ids |->
          IF i \in pending THEN [by |-> "onerror", msgId |-> NoId] ELSE settledBy[i]]
    /\ settleCalls' = [i \in Ids |->
          IF i \in pending THEN settleCalls[i] + 1 ELSE settleCalls[i]]
    /\ UNCHANGED <<ivars, waits, nextId, listeners, wire, sentWhen, inbound, dispatched>>

\* the peer closes the socket cleanly (close frame, browser exit): only a
\* close event is fired, and createCDP registers no onclose handler
WsClose ==
    /\ wsState = "open"
    /\ wsState' = "closed"
    /\ closeCause' = "peer"
    /\ UNCHANGED <<ivars, waits, nextId, pending, listeners, wire, promise, settledBy,
                   settleCalls, sentWhen, inbound, dispatched>>

\* client.close(): ws.close()
ClientClose ==
    /\ wsState = "open"
    /\ wsState' = "closed"
    /\ closeCause' = "client"
    /\ UNCHANGED <<ivars, waits, nextId, pending, listeners, wire, promise, settledBy,
                   settleCalls, sentWhen, inbound, dispatched>>

(***************************************************************************)
(* client.on(method, callback, sessionId) and the unsubscribe it returns   *)
(***************************************************************************)
On(method, cb, sessionId) ==
    LET key == ListenerKey(method, sessionId)
    IN /\ SumLen(listeners, ListenerKeys) < MaxListeners
       /\ cb \notin SeqToSet(listeners[key])
       /\ listeners' = [listeners EXCEPT ![key] = Append(@, cb)]
       /\ UNCHANGED <<ivars, waits, nextId, pending, wsState, closeCause, wire, promise, settledBy,
                      settleCalls, sentWhen, inbound, dispatched>>

Unsubscribe(method, cb, sessionId) ==
    LET key == ListenerKey(method, sessionId)
    IN /\ cb \in SeqToSet(listeners[key])
       /\ listeners' = [listeners EXCEPT ![key] = SeqRemove(@, cb)]
       /\ UNCHANGED <<ivars, waits, nextId, pending, wsState, closeCause, wire, promise, settledBy,
                      settleCalls, sentWhen, inbound, dispatched>>

(***************************************************************************)
(* client.once(method, timeout, sessionId)                                 *)
(***************************************************************************)
\* once() makes a new closure on every call; a closure whose promise has
\* settled is never used again, so its place is free for the next call
FreeWait ==
    CHOOSE w \in Waits :
        waits[w].state # "waiting" /\ \A v \in Waits : v < w => waits[v].state = "waiting"

Once(method, sessionId) ==
    /\ \E w \in Waits : waits[w].state # "waiting"
    /\ LET w == FreeWait
       IN /\ listeners' = [listeners EXCEPT ![ListenerKey(method, sessionId)] =
                               Append(@, OnceCallback(w))]
          /\ waits' = [waits EXCEPT ![w] =
                          [state |-> "waiting", method |-> method, sessionId |-> sessionId]]
    /\ UNCHANGED <<ivars, nextId, pending, wsState, closeCause, wire, promise, settledBy,
                   settleCalls, sentWhen, inbound, dispatched>>

\* the setTimeout callback of once(): unsub(); reject(Timeout)
TimerKeeps(ls, key, cb) == ls
TimerUnsub(ls, key, cb) == Unsub(ls, key, cb)

OnceTimeout(w) ==
    /\ waits[w].state = "waiting"
    /\ listeners' = TimerUnsub(listeners, ListenerKey(waits[w].method, waits[w].sessionId),
                               OnceCallback(w))
    /\ waits' = [waits EXCEPT ![w] = [NoWait EXCEPT !.state = "timeout"]]
    /\ UNCHANGED <<ivars, nextId, pending, wsState, closeCause, wire, promise, settledBy,
                   settleCalls, sentWhen, inbound, dispatched>>

(***************************************************************************)
(* client.session(sessionId): the session view                             *)
(***************************************************************************)
SessionSendUnscoped(sessionId, method) == Send(method, NoSession)
SessionSend(sessionId, method) == Send(method, sessionId)

SessionOn(sessionId, method, cb) == On(method, cb, sessionId)

SessionOnce(sessionId, method) == Once(method, sessionId)

NextEvents ==
    \/ \E m \in EventMethods, cb \in Callbacks, s \in Sessions \cup {NoSession} : On(m, cb, s)
    \/ \E m \in EventMethods, cb \in Callbacks, s \in Sessions \cup {NoSession} :
          Unsubscribe(m, cb, s)
    \/ \E m \in EventMethods : Once(m, NoSession)
    \/ \E w \in Waits : OnceTimeout(w)
    \/ \E s \in Sessions, m \in Commands : SessionSend(s, m)
    \/ \E s \in Sessions, m \in EventMethods, cb \in Callbacks : SessionOn(s, m, cb)
    \/ \E s \in Sessions, m \in EventMethods : SessionOnce(s, m)
    \/ \E msg \in Events, thrower \in Callbacks \cup {NoThrow} : OnMessageEvent(msg, thrower)

NextCDP ==
    \/ \E m \in Commands, s \in Sessions \cup {NoSession} : Send(m, s)
    \/ \E msg \in InboundMessages : OnMessageResponse(msg)
    \/ \E msg \in InboundMessages, thrower \in Callbacks \cup {NoThrow} :
          OnMessageEvent(msg, thrower)
    \/ WsError
    \/ WsClose
    \/ ClientClose
    \/ \E m \in EventMethods, cb \in Callbacks, s \in Sessions \cup {NoSession} : On(m, cb, s)
    \/ \E m \in EventMethods, cb \in Callbacks, s \in Sessions \cup {NoSession} :
          Unsubscribe(m, cb, s)

(***************************************************************************)
(* Accessibility tree: buildTree, the reference map of ariaTree (index.js) *)
(* and formatTree (aria.js)                                                *)
(***************************************************************************)
Absent == 0                \* an absent parentId / backendDOMNodeId (falsy)
Undefined == "#undefined"  \* a property whose value?.value is undefined
NullTree == [null |-> TRUE]
NoRef == 0                 \* a falsy nodeId: no [ref=...] token

\* extractProps(node.properties): name -> value?.value
ExtractProps(props) == props

\* first pass of buildTree: the tree node made for a raw node
TreeNodeOf(raw, kids) ==
    [nodeId |-> raw.nodeId,
     backendDOMNodeId |-> raw.backendDOMNodeId,
     role |-> raw.role,
     name |-> raw.name,
     properties |-> ExtractProps(raw.properties),
     ignored |-> raw.ignored,
     children |-> kids]

\* nodeMap.get(id): nodeMap.set overwrites, so the last raw node with the id
\* (0 when the id is unknown)
RECURSIVE NodeIndexFrom(_, _, _)
NodeIndexFrom(nodes, id, i) ==
    IF i = 0 THEN 0
    ELSE IF nodes[i].nodeId = id THEN i
    ELSE NodeIndexFrom(nodes, id, i - 1)

NodeIndex(nodes, id) == NodeIndexFrom(nodes, id, Len(nodes))

\* second pass of buildTree over nodes[i..]: links (parent id, child id) in
\* push order, the linked set, and the root (first parentless node)
RECURSIVE LinkPass(_, _, _)
LinkPass(nodes, i, acc) ==
    IF i > Len(nodes) THEN acc
    ELSE LET node == nodes[i]
             next ==
                 IF node.parentId # Absent /\ node.nodeId \notin acc.linked
                 THEN IF NodeIndex(nodes, node.parentId) # 0
                      THEN [acc EXCEPT
                              !.links = Append(@, <<node.parentId, node.nodeId>>),
                              !.linked = @ \cup {node.nodeId}]
                      ELSE acc
                 ELSE IF node.parentId = Absent /\ acc.root = Absent
                      THEN [acc EXCEPT !.root = node.nodeId]
                      ELSE acc
         IN LinkPass(nodes, i + 1, next)

LinksAfterFirst(nodes) ==
    LinkPass(nodes, 2, [links |-> <<>>, linked |-> {}, root |-> Absent])
Links(nodes) == LinkPass(nodes, 1, [links |-> <<>>, linked |-> {}, root |-> Absent])

RECURSIVE ChildIds(_, _)
ChildIds(links, id) ==
    IF links = <<>> THEN <<>>
    ELSE IF Head(links)[1] = id
         THEN <<Head(links)[2]>> \o ChildIds(Tail(links), id)
         ELSE ChildIds(Tail(links), id)

\* the nested node reached from id (fuel bounds the depth of the unfolding)
RECURSIVE Nested(_, _, _, _)
Nested(nodes, links, id, fuel) ==
    LET kids == ChildIds(links, id)
    IN TreeNodeOf(nodes[NodeIndex(nodes, id)],
                  IF fuel = 0 THEN <<>>
                  ELSE [k \in 1..Len(kids) |-> Nested(nodes, links, kids[k], fuel - 1)])

buildTree(nodes) ==
    IF Len(nodes) = 0 THEN NullTree
    ELSE LET r == Links(nodes)
         IN IF r.root = Absent THEN NullTree
            ELSE Nested(nodes, r.links, r.root, Len(nodes))

\* ariaTree: refMap.set(node.nodeId, node.backendDOMNodeId) for every raw
\* node that has a backendDOMNodeId; a later node overwrites an earlier one
RefKeys(nodes) ==
    {nodes[i].nodeId : i \in {j \in 1..Len(nodes) : nodes[j].backendDOMNodeId # Absent}}

RECURSIVE LastBackend(_, _, _)
LastBackend(nodes, id, i) ==
    IF i = 0 THEN Absent
    ELSE IF nodes[i].nodeId = id /\ nodes[i].backendDOMNodeId # Absent
         THEN nodes[i].backendDOMNodeId
         ELSE LastBackend(nodes, id, i - 1)

BuildRefMap(nodes) == [id \in RefKeys(nodes) |-> LastBackend(nodes, id, Len(nodes))]

ariaTree(nodes) == [tree |-> buildTree(nodes), refMap |-> BuildRefMap(nodes)]

\* formatTree: the lines of the text, in order
SKIP_ROLES_FORMAT == {"InlineTextBox", "LineBreak"}

HasProp(props, k) == k \in DOMAIN props /\ props[k] # Undefined
Truthy(v) == v \notin {Undefined, "#false", "#0", ""}
TruthyProp(props, k) == k \in DOMAIN props /\ Truthy(props[k])

PropParts(props) ==
    (IF HasProp(props, "checked") THEN <<<<"checked", props["checked"]>>>> ELSE <<>>)
    \o (IF TruthyProp(props, "disabled") THEN <<<<"disabled", "">>>> ELSE <<>>)
    \o (IF HasProp(props, "expanded") THEN <<<<"expanded", props["expanded"]>>>> ELSE <<>>)
    \o (IF TruthyProp(props, "level") THEN <<<<"level", props["level"]>>>> ELSE <<>>)
    \o (IF TruthyProp(props, "selected") THEN <<<<"selected", "">>>> ELSE <<>>)
    \o (IF TruthyProp(props, "required") THEN <<<<"required", "">>>> ELSE <<>>)
    \o (IF HasProp(props, "value") /\ props["value"] # ""
        THEN <<<<"value", props["value"]>>>> ELSE <<>>)

RefToken(nodeId) == IF nodeId # NoRef THEN nodeId ELSE NoRef

FormatLine(node, depth) ==
    [indent |-> depth,
     role |-> IF node.role = "" THEN "none" ELSE node.role,
     name |-> node.name,
     props |-> PropParts(node.properties),
     ref |-> RefToken(node.nodeId)]

RECURSIVE FormatSeq(_, _)
RECURSIVE formatTree(_, _)
FormatSeq(children, depth) ==
    IF children = <<>> THEN <<>>
    ELSE formatTree(Head(children), depth) \o FormatSeq(Tail(children), depth)

formatTree(node, depth) ==
    IF node = NullTree THEN <<>>
    ELSE IF node.ignored THEN FormatSeq(node.children, depth)
    ELSE IF node.role \in SKIP_ROLES_FORMAT THEN <<>>
    ELSE <<FormatLine(node, depth)>> \o FormatSeq(node.children, depth + 1)

\* the [ref=N] tokens of a text
RefTokens(lines) == {lines[i].ref : i \in 1..Len(lines)} \ {NoRef}

(***************************************************************************)
(* Strings                                                                 *)
(***************************************************************************)
ToLowerChar(c) ==
    CASE c = "A" -> "a" [] c = "B" -> "b" [] c = "C" -> "c" [] c = "D" -> "d"
      [] c = "E" -> "e" [] c = "F" -> "f" [] c = "G" -> "g" [] c = "H" -> "h"
      [] c = "I" -> "i" [] c = "J" -> "j" [] c = "K" -> "k" [] c = "L" -> "l"
      [] c = "M" -> "m" [] c = "N" -> "n" [] c = "O" -> "o" [] c = "P" -> "p"
      [] c = "Q" -> "q" [] c = "R" -> "r" [] c = "S" -> "s" [] c = "T" -> "t"
      [] c = "U" -> "u" [] c = "V" -> "v" [] c = "W" -> "w" [] c = "X" -> "x"
      [] c = "Y" -> "y" [] c = "Z" -> "z" [] OTHER -> c

RECURSIVE ToLower(_)
ToLower(str) == IF str = "" THEN "" ELSE ToLowerChar(Head(str)) \o ToLower(Tail(str))

\* String.prototype.includes
Includes(str, part) ==
    \E i \in 1..(Len(str) - Len(part) + 1) : SubSeq(str, i, i + Len(part) - 1) = part

(***************************************************************************)
(* index.js: values                                                        *)
(***************************************************************************)
MaxNodes == 2

NoProc == "null"
Child == "child"          \* the headless browser launch() spawned
External == "external"    \* the running browser behind the debug port
Modes == {"headless", "headed", "hybrid"}

\* the raw nodes Accessibility.getFullAXTree may answer with
RawNode(id, parent, backend, kind) ==
    [nodeId |-> id, parentId |-> parent, backendDOMNodeId |-> backend,
     role |-> kind.role, name |-> kind.name, properties |-> kind.properties,
     ignored |-> kind.ignored]

NoProps == [level |-> Undefined]

NodeKinds ==
    {[role |-> "heading", name |-> "Just a moment...", properties |-> [level |-> "1"],
      ignored |-> FALSE],
     [role |-> "button", name |-> "Buy", properties |-> NoProps, ignored |-> FALSE],
     [role |-> "generic", name |-> "", properties |-> NoProps, ignored |-> TRUE],
     [role |-> "InlineTextBox", name |-> "", properties |-> NoProps, ignored |-> FALSE]}

RootKind == [role |-> "RootWebArea", name |-> "", properties |-> NoProps, ignored |-> FALSE]

BackendOf(id) == 100 + id

RECURSIVE BatchesOfLen(_)
BatchesOfLen(n) ==
    IF n = 0 THEN {<<>>}
    ELSE IF n = 1 THEN {<<RawNode(1, Absent, BackendOf(1), RootKind)>>}
    ELSE {Append(b, RawNode(n, parent, backend, kind)) :
             b \in BatchesOfLen(n - 1), parent \in 1..(n - 1),
             backend \in {Absent, BackendOf(n)}, kind \in NodeKinds}

PageBatches == UNION {BatchesOfLen(n) : n \in 0..MaxNodes}

\* the references a caller may pass: every node id and one that no tree has
Refs == 1..(MaxNodes + 1)

(***************************************************************************)
(* isChallengePage, flattenTreeText                                        *)
(***************************************************************************)
RECURSIVE FlattenSeq(_)
RECURSIVE flattenTreeText(_)
FlattenSeq(children) ==
    IF children = <<>> THEN ""
    ELSE " " \o flattenTreeText(Head(children)) \o FlattenSeq(Tail(children))

flattenTreeText(node) ==
    IF node = NullTree THEN "" ELSE node.name \o FlattenSeq(node.children)

challengePhrases ==
    {"just a moment", "checking if the site connection is secure",
     "checking your browser", "please wait", "verify you are human",
     "attention required"}

isChallengePage(tree) ==
    IF tree = NullTree THEN TRUE
    ELSE LET lower == ToLower(flattenTreeText(tree))
         IN \E ph \in challengePhrases : Includes(lower, ph)

\* what the page shows when its accessibility tree is these raw nodes
ShownBy(nodes) == IF isChallengePage(buildTree(nodes)) THEN "challenge" ELSE "normal"

(***************************************************************************)
(* prune.js: role taxonomy, patterns, helpers                              *)
(***************************************************************************)
LANDMARKS ==
    {"banner", "main", "contentinfo", "navigation", "complementary", "search", "form",
     "region"}

INTERACTIVE ==
    {"button", "link", "textbox", "searchbox", "checkbox", "radio", "combobox",
     "listbox", "menuitem", "menuitemcheckbox", "menuitemradio", "option", "slider",
     "spinbutton", "switch", "tab", "treeitem"}

GROUPS ==
    {"radiogroup", "tablist", "menu", "menubar", "toolbar", "listbox", "tree",
     "treegrid", "grid"}

STRUCTURAL ==
    {"generic", "group", "list", "table", "row", "rowgroup", "cell", "directory",
     "document", "application", "presentation", "none", "separator", "LayoutTable",
     "LayoutTableRow", "LayoutTableCell"}

PruneModes == {"act", "browse", "navigate", "full"}

MODE_REGIONS(mode) ==
    CASE mode = "navigate" -> {"main", "banner", "navigation", "search"}
      [] mode = "full" ->
            {"main", "banner", "navigation", "contentinfo", "complementary", "search"}
      [] OTHER -> {"main"}

SKIP_ROLES == {"InlineTextBox", "LineBreak", "superscript"}

\* A pattern is a set of alternatives; an alternative is literals in order,
\* with between two of them "any" (.*) or "space" (\s*). All patterns but the
\* price are case-insensitive: they are written in lower case and tested on
\* the lower-cased text.
Lit(word) == [parts |-> <<word>>, gaps |-> <<>>]
Pair(a, gap, b) == [parts |-> <<a, b>>, gaps |-> <<gap>>]
Words(set) == {Lit(w) : w \in set}

StartsAt(str, part, i) ==
    i + Len(part) - 1 <= Len(str) /\ SubSeq(str, i, i + Len(part) - 1) = part

Blank(str) == \A k \in 1..Len(str) : SubSeq(str, k, k) = " "

RECURSIVE MatchAt(_, _, _, _)
MatchAt(str, parts, gaps, i) ==
    /\ StartsAt(str, Head(parts), i)
    /\ \/ Len(parts) = 1
       \/ \E j \in (i + Len(Head(parts)))..Len(str) :
            /\ Head(gaps) = "space" => Blank(SubSeq(str, i + Len(Head(parts)), j - 1))
            /\ MatchAt(str, Tail(parts), Tail(gaps), j)

\* pattern.test(str), pattern with the i flag
Test(pattern, str) ==
    LET lower == ToLower(str)
    IN \E alt \in pattern : \E i \in 1..Len(lower) : MatchAt(lower, alt.parts, alt.gaps, i)

auxPatterns ==
    Words({"image", "review", "recommend", "related", "similar", "also viewed", "cookie"})
AuxRegion == Words({"image", "review", "recommend", "related", "similar", "also viewed"})
ColorGroup == Words({"kleuren", "color", "couleur", "farben"})
DetailHeading ==
    Words({"about this", "description", "detail", "feature", "specification", "overview"})
Stock == Words({"in stock", "out of stock", "unavailable", "available"})
Shipping == Words({"delivery", "shipping", "free"})
NOISE_BUTTONS ==
    Words({"energieklasse", "productinformatieblad", "gesponsorde", "sponsored"})
    \cup {Pair("energy", "space", "class"), Pair("ad", "space", "feedback"),
          [parts |-> <<"product", "information", "sheet">>, gaps |-> <<"space", "space">>],
          [parts |-> <<"sterren", "details", "beoordeling">>, gaps |-> <<"any", "any">>],
          [parts |-> <<"stars", "rating", "detail">>, gaps |-> <<"any", "space">>]}
NOISE_LINKS == {"opties bekijken", "view options", "see options", "voir les options"}
FOOTER_LINKS ==
    Words({"privacy", "cookie", "contactgegevens", "advertenties"})
    \cup {Pair("gebruiks", "any", "voorwaarden"), Pair("conditions", "any", "use"),
          Pair("contact", "space", "info"), Pair("interest", "any", "ads"),
          [parts |-> <<"lees", "meer", "over", "deze", "resultaten">>,
           gaps |-> <<"space", "space", "space", "space">>]}
BackToTop == Words({"terug naar boven", "back to top"})
FooterHeading == Words({"gerelateerde zoek", "related search", "hulp nodig", "need help"})
FILTER_GROUP ==
    Words({"toepassen om de resultaten", "refine by"})
    \cup {Pair("filter", "any", "to narrow"), Pair("apply", "any", "filter")}

Digits == {"0", "1", "2", "3", "4", "5", "6", "7", "8", "9"}

\* the price pattern: a currency sign ($; the euro sign is not ASCII and is
\* left out) followed by a digit or a comma
Price(t) ==
    \E i \in 1..(Len(t) - 1) :
        /\ SubSeq(t, i, i) = "$"
        /\ SubSeq(t, i + 1, i + 1) \in Digits \cup {","}

\* String.prototype.trim, for texts whose white space is spaces
RECURSIVE Trim(_)
Trim(t) ==
    IF t = "" THEN ""
    ELSE IF Head(t) = " " THEN Trim(Tail(t))
    ELSE IF SubSeq(t, Len(t), Len(t)) = " " THEN Trim(SubSeq(t, 1, Len(t) - 1))
    ELSE t

\* children.map(f).filter(Boolean), given the mapped children
Compact(nodes) == SelectSeq(nodes, LAMBDA n : n # NullTree)

RECURSIVE hasInteractive(_)
hasInteractive(node) ==
    \/ node.role \in INTERACTIVE \cup GROUPS
    \/ \E i \in 1..Len(node.children) : hasInteractive(node.children[i])

RECURSIVE hasHeading(_)
hasHeading(node) ==
    \/ node.role = "heading"
    \/ \E i \in 1..Len(node.children) : hasHeading(node.children[i])

RECURSIVE extractText(_)
RECURSIVE ExtractTextAll(_)
ExtractTextAll(children) ==
    IF children = <<>> THEN ""
    ELSE " " \o extractText(Head(children)) \o ExtractTextAll(Tail(children))
extractText(node) == node.name \o ExtractTextAll(node.children)

RECURSIVE flatten(_)
flatten(nodes) ==
    IF nodes = <<>> THEN <<>>
    ELSE <<Head(nodes)>> \o flatten(Head(nodes).children) \o flatten(Tail(nodes))

\* level !== '1' && level !== 1 (a level is written "1", "2", ... here)
NotLevel1(node) == node.properties.level # "1"

(***************************************************************************)
(* prune.js: the passes                                                    *)
(***************************************************************************)
isRegionAllowed(node, allowedRegions) ==
    IF node.role \in allowedRegions THEN TRUE
    ELSE IF node.role = "region" /\ "main" \in allowedRegions
         THEN ~(node.name # "" /\ Test(auxPatterns, node.name))
         ELSE FALSE

\* Step 1
extractRegions(tree, allowedRegions) ==
    LET nodes == IF tree.role \in {"RootWebArea", "WebArea"} THEN tree.children
                 ELSE <<tree>>
        hasLandmarks == \E i \in 1..Len(nodes) : nodes[i].role \in LANDMARKS
        mains == {i \in 1..Len(nodes) : nodes[i].role = "main"}
        mainNode == nodes[CHOOSE i \in mains : \A j \in mains : i <= j]
        hasMain == mains # {} /\ (hasInteractive(mainNode) \/ hasHeading(mainNode))
        Pushed(node) ==
            IF node.role \in LANDMARKS THEN isRegionAllowed(node, allowedRegions)
            ELSE IF hasLandmarks /\ hasMain THEN "navigation" \in allowedRegions
            ELSE IF hasLandmarks THEN hasInteractive(node) \/ hasHeading(node)
            ELSE TRUE
    IN SelectSeq(nodes, Pushed)

\* the ASCII members of the class [|>-...]; the names of the model are ASCII
Separators == {"|", ">", "-"}

keepText(node, mode) ==
    LET t == node.name
    IN IF t = "" THEN FALSE
       ELSE IF mode = "browse" THEN ~(Len(t) <= 2 /\ Trim(t) \in Separators)
       ELSE \/ Price(t)
            \/ Test(Stock, t)
            \/ Test(Shipping, t)
            \/ (Len(t) < 40 /\ SubSeq(t, Len(t), Len(t)) = ":")
            \/ Len(t) < 30

RECURSIVE Join(_, _)
Join(strs, sep) ==
    IF strs = <<>> THEN ""
    ELSE IF Len(strs) = 1 THEN Head(strs)
    ELSE Head(strs) \o sep \o Join(Tail(strs), sep)

collapseColors(node) ==
    LET all == flatten(<<node>>)
        links == SelectSeq(all, LAMBDA n : n.role = "link" /\ n.name # "")
        colors == SelectSeq(links, LAMBDA n : ~StartsAt(n.name, "+", 1))
    IN IF colors = <<>>
       THEN IF links = <<>> THEN NullTree ELSE [links[1] EXCEPT !.children = <<>>]
       ELSE [nodeId |-> node.nodeId, backendDOMNodeId |-> Absent, role |-> "StaticText",
             name |-> "colors(" \o ToString(Len(colors)) \o "): "
                      \o Join([i \in 1..Len(colors) |-> colors[i].name], ", "),
             properties |-> NoProps, ignored |-> FALSE, children |-> <<>>]

\* Step 2. ctx.keywords is [] (index.js passes no context), so the product
\* card branch of lines 194-199 is never taken
RECURSIVE pruneNode(_, _, _)
pruneChildren(children, mode, parentRole) ==
    Compact([i \in 1..Len(children) |-> pruneNode(children[i], mode, parentRole)])

pruneNode(node, mode, parentRole) ==
    LET isBrowse == mode = "browse"
        recursed == [node EXCEPT !.children = pruneChildren(@, mode, parentRole)]
        childless == [node EXCEPT !.children = <<>>]
        keptChildren == pruneChildren(node.children, mode, node.role)
    IN IF node.role \in SKIP_ROLES THEN NullTree
       ELSE IF mode = "act" /\ node.role = "link" /\ parentRole = "paragraph" THEN NullTree
       ELSE IF node.role = "paragraph" THEN (IF mode = "act" THEN NullTree ELSE recursed)
       ELSE IF isBrowse /\ node.role = "navigation" THEN NullTree
       ELSE IF node.role = "code" THEN node
       ELSE IF node.role \in {"term", "definition"} THEN recursed
       ELSE IF isBrowse /\ node.role \in {"strong", "emphasis", "blockquote"} THEN recursed
       ELSE IF isBrowse /\ node.role = "figure"
            THEN (IF node.name # ""
                  THEN [node EXCEPT !.role = "StaticText",
                                    !.name = "[Figure: " \o node.name \o "]",
                                    !.children = <<>>]
                  ELSE NullTree)
       ELSE IF node.role \in INTERACTIVE THEN recursed
       ELSE IF node.role \in GROUPS /\ node.name # "" THEN recursed
       ELSE IF node.role = "group" /\ node.name # ""
            THEN (IF ~isBrowse /\ Test(ColorGroup, node.name) THEN collapseColors(node)
                  ELSE recursed)
       ELSE IF node.role = "heading"
            THEN (IF ~isBrowse /\ NotLevel1(node) /\ node.name # ""
                     /\ Test(DetailHeading, node.name)
                  THEN NullTree ELSE childless)
       ELSE IF node.role = "StaticText"
            THEN (IF keepText(node, mode) THEN node ELSE NullTree)
       ELSE IF node.role \in {"img", "image"}
            THEN (IF isBrowse /\ node.name # "" THEN childless ELSE NullTree)
       ELSE IF node.role = "separator" THEN NullTree
       ELSE IF node.role = "complementary" THEN (IF isBrowse THEN recursed ELSE NullTree)
       ELSE IF node.role = "region" /\ ~isBrowse /\ node.name # ""
               /\ Test(AuxRegion, node.name)
            THEN NullTree
       ELSE IF isBrowse /\ node.role \in {"note", "status"} THEN recursed
       ELSE IF ~isBrowse /\ node.role = "list"
               /\ \A i \in 1..Len(keptChildren) : ~hasInteractive(keptChildren[i])
            THEN NullTree
       ELSE IF ~isBrowse /\ node.role = "listitem" /\ ~hasInteractive(node) THEN NullTree
       ELSE IF keptChildren # <<>> THEN [node EXCEPT !.children = keptChildren]
       ELSE NullTree

\* Step 3: what collapse returns for a node whose children are collapsed
CollapsedAsIs(node, children) == [node EXCEPT !.children = children]
Collapsed(node, children) ==
    LET isTableLayout ==
            StartsAt(node.role, "LayoutTable", 1) \/ node.role \in {"row", "cell", "rowgroup"}
    IN IF (node.role \in STRUCTURAL /\ node.name = "") \/ isTableLayout
       THEN IF Len(children) = 1 THEN children[1]
            ELSE IF Len(children) > 0
                 THEN [node EXCEPT !.role = "_promote", !.children = children]
                 ELSE NullTree
       ELSE [node EXCEPT !.children = children]

RECURSIVE collapse(_)
collapse(node) ==
    Collapsed(node, Compact([i \in 1..Len(node.children) |-> collapse(node.children[i])]))

\* the elements of seq at the indices in keep, in order
RECURSIVE Keep(_, _)
Keep(seq, keep) ==
    IF seq = <<>> THEN <<>>
    ELSE Keep(SubSeq(seq, 1, Len(seq) - 1), keep)
         \o (IF Len(seq) \in keep THEN <<seq[Len(seq)]>> ELSE <<>>)

dropOrphanedHeadings(children) ==
    LET found(i) ==
            \E j \in (i + 1)..Len(children) :
                /\ hasInteractive(children[j])
                /\ \A k \in (i + 1)..j : children[k].role # "heading"
    IN Keep(children,
            {i \in 1..Len(children) :
                ~(children[i].role = "heading" /\ NotLevel1(children[i]) /\ ~found(i))})

\* Step 4
RECURSIVE postClean(_, _)
postClean(node, isBrowse) ==
    IF node.role \in {"combobox", "listbox"}
    THEN LET selected ==
                 SelectSeq(node.children, LAMBDA c : TruthyProp(c.properties, "selected"))
         IN [node EXCEPT
               !.name = IF selected # <<>> /\ selected[1].name # ""
                        THEN selected[1].name ELSE node.name,
               !.children = <<>>]
    ELSE LET children ==
                 Compact([i \in 1..Len(node.children) |->
                             postClean(node.children[i], isBrowse)])
         IN [node EXCEPT !.children = IF isBrowse THEN children
                                      ELSE dropOrphanedHeadings(children)]

\* Step 5: seen and local are the keys of the Map; the result is the node (or
\* null) and the Map after the call
RECURSIVE dedupLinksIn(_, _)
RECURSIVE DedupEach(_, _)
DedupEach(nodes, seen) ==
    IF nodes = <<>> THEN [nodes |-> <<>>, seen |-> seen]
    ELSE LET first == dedupLinksIn(Head(nodes), seen)
             rest == DedupEach(Tail(nodes), first.seen)
         IN [nodes |-> Compact(<<first.node>>) \o rest.nodes, seen |-> rest.seen]

dedupLinksIn(node, seen) ==
    LET isLink == node.role = "link" /\ node.name # ""
        marked == IF isLink THEN seen \cup {node.name} ELSE seen
    IN IF isLink /\ node.name \in seen THEN [node |-> NullTree, seen |-> seen]
       ELSE IF node.role = "listitem"
            THEN LET local == DedupEach(node.children, {})
                 IN [node |-> IF local.nodes # <<>>
                              THEN [node EXCEPT !.children = local.nodes] ELSE NullTree,
                     seen |-> marked]
            ELSE LET below == DedupEach(node.children, marked)
                 IN [node |-> [node EXCEPT !.children = below.nodes], seen |-> below.seen]

dedupLinks(nodes) == DedupEach(nodes, {}).nodes

\* Step 6
RECURSIVE dropNoiseButtons(_)
dropNoiseButtons(node) ==
    IF node.role = "button" /\ node.name # "" /\ Test(NOISE_BUTTONS, node.name)
    THEN NullTree
    ELSE IF node.role = "link" /\ node.name # ""
            /\ (ToLower(node.name) \in NOISE_LINKS \/ Test(FOOTER_LINKS, node.name))
         THEN NullTree
    ELSE [node EXCEPT
            !.children = Compact([i \in 1..Len(@) |-> dropNoiseButtons(@[i])])]

isFooterMarker(node) ==
    \/ node.role = "button" /\ node.name # "" /\ Test(BackToTop, node.name)
    \/ node.role = "heading" /\ node.properties.level = "6"
    \/ node.role = "heading" /\ node.name # "" /\ Test(FooterHeading, node.name)

isSkippable(node) ==
    node.role = "dialog" /\ node.name # "" /\ Test(Words({"filter"}), node.name)

\* Step 7
RECURSIVE truncateAfterFooter(_)
truncateAfterFooter(nodes) ==
    IF nodes = <<>> THEN <<>>
    ELSE LET node == Head(nodes)
             trimmed == [node EXCEPT !.children = truncateAfterFooter(@)]
         IN IF isFooterMarker(node) THEN <<>>
            ELSE IF isSkippable(node) THEN truncateAfterFooter(Tail(nodes))
            ELSE IF Len(node.children) > 0
                 THEN (IF trimmed.children = <<>> /\ trimmed.role \in STRUCTURAL
                       THEN <<>> ELSE <<trimmed>>) \o truncateAfterFooter(Tail(nodes))
            ELSE <<node>> \o truncateAfterFooter(Tail(nodes))

\* Step 8
RECURSIVE dropFilterGroups(_)
dropFilterGroups(node) ==
    IF node.role = "group" /\ node.name # "" /\ Test(FILTER_GROUP, extractText(node))
    THEN NullTree
    ELSE LET children ==
                 Compact([i \in 1..Len(node.children) |-> dropFilterGroups(node.children[i])])
         IN IF node.role \in STRUCTURAL /\ node.name = "" /\ children = <<>> THEN NullTree
            ELSE [node EXCEPT !.children = children]

\* Steps 1 to 4 of prune
Cleaned(tree, mode) ==
    LET regions == IF tree = NullTree THEN <<>> ELSE extractRegions(tree, MODE_REGIONS(mode))
        pruned == Compact([i \in 1..Len(regions) |-> pruneNode(regions[i], mode, "")])
        collapsed == Compact([i \in 1..Len(pruned) |-> collapse(pruned[i])])
    IN Compact([i \in 1..Len(collapsed) |-> postClean(collapsed[i], mode = "browse")])

\* Steps 5 to 8
Denoised(nodes) ==
    LET deduped == dedupLinks(nodes)
        quiet == Compact([i \in 1..Len(deduped) |-> dropNoiseButtons(deduped[i])])
        truncated == truncateAfterFooter(quiet)
    IN Compact([i \in 1..Len(truncated) |-> dropFilterGroups(truncated[i])])

\* return single root or wrap multiple
Wrapped(nodes) ==
    IF Len(nodes) = 0 THEN NullTree
    ELSE IF Len(nodes) = 1 THEN nodes[1]
    ELSE [nodeId |-> NoRef, backendDOMNodeId |-> Absent, role |-> "root", name |-> "",
          properties |-> NoProps, ignored |-> FALSE, children |-> nodes]

prune(tree, mode) ==
    Wrapped(IF mode # "browse" THEN Denoised(Cleaned(tree, mode)) ELSE Cleaned(tree, mode))

(***************************************************************************)
(* prune.js: the objects the passes write to                               *)
(***************************************************************************)
\* Every pass builds its result with { ...node, children: ... }: the
\* assignment of children goes to a new object, the one it was spread from
\* keeps its fields. A write names the object it goes to (the node itself,
\* or a copy of it) and the child list it stores there.
InPlace(node) == [copy |-> FALSE, of |-> node.nodeId]
Spread(node) == [copy |-> TRUE, of |-> node.nodeId]

\* pruneNode: the nodes it returns unchanged (return node) are not written
RECURSIVE pruneNodeWrites(_, _, _)
pruneNodeWrites(node, mode, parentRole) ==
    LET result == pruneNode(node, mode, parentRole)
        asIs == node.role = "code" \/ node.role = "StaticText"
        below == IF node.role \in {"paragraph", "term", "definition", "strong", "emphasis",
                                   "blockquote", "complementary", "note", "status"}
                    \/ node.role \in INTERACTIVE \/ (node.role \in GROUPS /\ node.name # "")
                    \/ (node.role = "group" /\ node.name # "")
                 THEN parentRole ELSE node.role
    IN IF result = NullTree \/ asIs THEN {}
       ELSE {[object |-> Spread(node), children |-> result.children]}
            \cup UNION {pruneNodeWrites(node.children[i], mode, below) :
                           i \in 1..Len(node.children)}

\* collapse: node = { ...node, children: ... } binds the name to a new object
RECURSIVE collapseWrites(_)
collapseWrites(node) ==
    {[object |-> Spread(node),
      children |-> Compact([i \in 1..Len(node.children) |-> collapse(node.children[i])])]}
    \cup UNION {collapseWrites(node.children[i]) : i \in 1..Len(node.children)}

\* the writes of steps 2 and 3 of prune
Writes(tree, mode) ==
    LET regions == IF tree = NullTree THEN <<>> ELSE extractRegions(tree, MODE_REGIONS(mode))
        pruned == Compact([i \in 1..Len(regions) |-> pruneNode(regions[i], mode, "")])
    IN UNION {pruneNodeWrites(regions[i], mode, "") : i \in 1..Len(regions)}
       \cup UNION {collapseWrites(pruned[i]) : i \in 1..Len(pruned)}

\* the tree a reference to node reads once the writes are done
RECURSIVE Stored(_, _)
Stored(node, writes) ==
    LET mine == {w \in writes : w.object = InPlace(node)}
        kids == IF mine = {} THEN node.children ELSE (CHOOSE w \in mine : TRUE).children
    IN [node EXCEPT !.children = [i \in 1..Len(kids) |-> Stored(kids[i], writes)]]

(***************************************************************************)
(* interact.js, consent.js, navigate: the commands each call awaits        *)
(***************************************************************************)
\* a step: session.send(method, ...) awaited (await = "response"), or the
\* once('Page.loadEventFired') promise awaited (await = "event"); skip >= 0
\* marks a send inside try/catch: on rejection the next `skip` steps are
\* left out and the call goes on
\* at, button and clickCount are the x/y, button and clickCount parameters of
\* Input.dispatchMouseEvent
NoPoint == [x |-> 0, y |-> 0]

Cmd(method, node, kind) ==
    [method |-> method, node |-> node, type |-> kind, at |-> NoPoint, button |-> "",
     clickCount |-> 0, await |-> "response", skip |-> -1]

Guarded(step, skip) == [step EXCEPT !.skip = skip]

WaitLoad ==
    [method |-> "Page.loadEventFired", node |-> Absent, type |-> "", at |-> NoPoint,
     button |-> "", clickCount |-> 0, await |-> "event", skip |-> -1]

\* the commands of getCenter, in await order
getCenterBoxFirst(node) ==
    <<Cmd("DOM.getBoxModel", node, ""), Cmd("DOM.scrollIntoViewIfNeeded", node, "")>>
getCenter(node) ==
    <<Cmd("DOM.scrollIntoViewIfNeeded", node, ""), Cmd("DOM.getBoxModel", node, "")>>

\* model.content of the answer to DOM.getBoxModel: [x1,y1, x2,y2, x3,y3, x4,y4],
\* a 4 by 2 box whose place depends on the node
BoxModel(node) ==
    <<8 * node, 4 * node, 8 * node + 4, 4 * node, 8 * node + 4, 4 * node + 2,
      8 * node, 4 * node + 2>>

\* what getCenter returns: { x: (x1 + x3) / 2, y: (y1 + y3) / 2 }
Center(node) ==
    LET content == BoxModel(node)
    IN [x |-> (content[1] + content[5]) \div 2, y |-> (content[2] + content[6]) \div 2]

\* { type, x, y } and { type, x, y, button: 'left', clickCount: 1 }
Mouse(kind, point) == [Cmd("Input.dispatchMouseEvent", Absent, kind) EXCEPT !.at = point]
MouseLeft(kind, point) == [Mouse(kind, point) EXCEPT !.button = "left", !.clickCount = 1]
Key(kind, key) == Cmd("Input.dispatchKeyEvent", Absent, kind \o ":" \o key)

cdpClick(node) ==
    getCenter(node)
    \o <<MouseLeft("mousePressed", Center(node)), MouseLeft("mouseReleased", Center(node))>>

cdpHover(node) == getCenter(node) \o <<Mouse("mouseMoved", Center(node))>>

RECURSIVE PerChar(_)
PerChar(text) ==
    IF text = "" THEN <<>>
    ELSE <<Key("keyDown", Head(text)), Key("keyUp", Head(text))>> \o PerChar(Tail(text))

cdpType(node, text, clear, keyEvents) ==
    <<Cmd("DOM.focus", node, "")>>
    \o (IF clear
        THEN <<Key("keyDown", "a"), Key("keyUp", "a"),
               Key("keyDown", "Backspace"), Key("keyUp", "Backspace")>>
        ELSE <<>>)
    \o (IF keyEvents THEN PerChar(text) ELSE <<Cmd("Input.insertText", Absent, text)>>)

\* native: the element's tagName is SELECT
cdpSelect(node, native) ==
    <<Cmd("DOM.resolveNode", node, ""), Cmd("Runtime.callFunctionOn", Absent, "tagName")>>
    \o (IF native
        THEN <<Cmd("Runtime.callFunctionOn", Absent, "setValue")>>
        ELSE cdpClick(node) \o <<Cmd("Runtime.evaluate", Absent, "clickOption")>>)

\* midX = (from.x + to.x) / 2, midY = (from.y + to.y) / 2
Midway(from, to) == [x |-> (from.x + to.x) \div 2, y |-> (from.y + to.y) \div 2]

cdpDragNoMidway(fromNode, toNode) ==
    LET from == Center(fromNode)
        to == Center(toNode)
    IN getCenter(fromNode) \o getCenter(toNode)
       \o <<MouseLeft("mousePressed", from), Mouse("mouseMoved", to),
            Mouse("mouseMoved", to), MouseLeft("mouseReleased", to)>>
cdpDrag(fromNode, toNode) ==
    LET from == Center(fromNode)
        to == Center(toNode)
    IN getCenter(fromNode) \o getCenter(toNode)
       \o <<MouseLeft("mousePressed", from), Mouse("mouseMoved", Midway(from, to)),
            Mouse("mouseMoved", to), MouseLeft("mouseReleased", to)>>

cdpUpload(node) == <<Cmd("DOM.setFileInputFiles", node, "")>>

navigate == <<Cmd("Page.navigate", Absent, ""), WaitLoad>>

\* dismissConsent: the tree is read outside any try; the jsClick of an accept
\* button (when the page has one) runs inside try/catch
dismissConsent(hasButton) ==
    <<Cmd("Accessibility.enable", Absent, ""), Cmd("Accessibility.getFullAXTree", Absent, "")>>
    \o (IF hasButton
        THEN <<Guarded(Cmd("DOM.resolveNode", Absent, "consent"), 1),
               Guarded(Cmd("Runtime.callFunctionOn", Absent, "consent"), 0)>>
        ELSE <<>>)

ariaTreeCmds ==
    <<Cmd("Accessibility.enable", Absent, ""), Cmd("Accessibility.getFullAXTree", Absent, "")>>

closeCmds == <<Cmd("Target.closeTarget", Absent, "")>>

NoArgs ==
    [ref |-> 0, ref2 |-> 0, node |-> Absent, node2 |-> Absent, text |-> "",
     clear |-> FALSE, keyEvents |-> FALSE, flag |-> FALSE]

\* the awaited steps of a page-handle method, after its references resolved
Script(name, args, o) ==
    CASE name = "goto" ->
            navigate \o (IF o.consent THEN dismissConsent(args.flag) ELSE <<>>)
      [] name = "snapshot" -> ariaTreeCmds
      [] name = "click" -> cdpClick(args.node)
      [] name = "type" -> cdpType(args.node, args.text, args.clear, args.keyEvents)
      [] name = "hover" -> cdpHover(args.node)
      [] name = "select" -> cdpSelect(args.node, args.flag)
      [] name = "drag" -> cdpDrag(args.node, args.node2)
      [] name = "upload" -> cdpUpload(args.node)
      [] name = "close" -> closeCmds
      [] OTHER -> <<>>

(***************************************************************************)
(* The page session of connect(): values                                   *)
(***************************************************************************)
Off == -1                  \* a timer that is not set (or was cleared)

\* what opts.storageState names: nothing, a file that does not exist, a file
\* that is not JSON, a state without cookies, a state with cookies
StorageDocs == {"unset", "absent", "invalid", "empty", "cookies"}

DialogTypes == {"alert", "confirm", "prompt", "beforeunload"}

NoNav ==
    [pc |-> "idle", load |-> "none", timer |-> Off, failed |-> FALSE, result |-> "none",
     early |-> FALSE, missed |-> FALSE]

NoNetIdle ==
    [state |-> "none", pending |-> 0, timer |-> Off, deadlineTimer |-> Off, idle |-> 0,
     listening |-> FALSE, requests |-> 0, quiet |-> 0, calls |-> 0, before |-> 0]

NoPageSession ==
    /\ session = [pc |-> "none", storageState |-> "unset", cookiesSet |-> FALSE]
    /\ dialogLog = <<>>
    /\ dialogAcks = <<>>
    /\ now = 0
    /\ nav = NoNav
    /\ netIdle = NoNetIdle

NotBuilt == [done |-> FALSE, tree |-> NullTree]

\* no call of buildTree, prune or launch on its own
NoFunctions ==
    /\ rawBatch = <<>>
    /\ built = NotBuilt
    /\ pruneIn = NullTree
    /\ pruneMode = "act"
    /\ pruneOut = <<>>
    /\ inputAfter = NullTree
    /\ launches = <<>>

(***************************************************************************)
(* connect(opts): the page handle                                          *)
(***************************************************************************)
\* connect: browser = await launch(...) unless mode is headed
LaunchedAlways(mode) == Child
Launched(mode) == IF mode = "headed" THEN NoProc ELSE Child

\* the browser the client is connected to
AttachedAfterConnect(mode) == IF mode = "headed" THEN External ELSE Child

NoOp == [name |-> "none", args |-> NoArgs, result |-> "none"]

InitConnect ==
    /\ api = "connect"
    /\ opts \in [mode : Modes, consent : BOOLEAN, cookies : {TRUE}]
    /\ browser = Launched(opts.mode)
    /\ cdp = "open"
    /\ attached = AttachedAfterConnect(opts.mode)
    /\ killed = {}
    /\ log = <<>>
    /\ landed = "normal"
    /\ refMap = <<>>
    /\ prevRefMap = <<>>
    /\ snapNodes = <<>>
    /\ snapText = <<>>
    /\ opName = "idle"
    /\ opArgs = NoArgs
    /\ opPc = 0
    /\ opSent = <<>>
    /\ lastOp = NoOp
    /\ bpc = "idle"
    /\ trees = <<>>
    /\ returned = <<>>
    /\ NoPageSession
    /\ NoFunctions

\* refMap.get(ref): the backend id, or Absent (undefined) for a missing key
RefGet(map, ref) == IF ref \in DOMAIN map THEN map[ref] ELSE Absent

\* drag: if (!fromId) throw ...; if (!toId) throw ...
DragResolvedFromOnly(fromId, toId) == fromId # Absent
DragResolved(fromId, toId) == fromId # Absent /\ toId # Absent

\* a method throws before its first await
Throw(name, args, error) ==
    /\ lastOp' = [name |-> name, args |-> args, result |-> error]
    /\ opSent' = <<>>
    /\ UNCHANGED <<opName, opArgs, opPc>>

\* a method reaches its first await: the first step of its script
Begin(name, args) ==
    LET script == Script(name, args, opts)
    IN /\ opName' = name
       /\ opArgs' = args
       /\ opPc' = 1
       /\ opSent' = IF script[1].await = "response" THEN <<script[1]>> ELSE <<>>
       /\ lastOp' = NoOp

Idle == api = "connect" /\ opName = "idle"

Frame == UNCHANGED <<api, opts, browser, cdp, attached, killed, log, landed, refMap,
                     prevRefMap, snapNodes, snapText, bvars, tvars, svars, pvars, lvars>>

\* the methods that take one reference
RefOp(name, ref, args) ==
    /\ Idle
    /\ LET backendNodeId == RefGet(refMap, ref)
           a == [args EXCEPT !.ref = ref, !.node = backendNodeId]
       IN IF backendNodeId = Absent
          THEN Throw(name, a, "ReferenceUnknown")
          ELSE Begin(name, a)
    /\ Frame

Click(ref) == RefOp("click", ref, NoArgs)

Hover(ref) == RefOp("hover", ref, NoArgs)

Upload(ref) == RefOp("upload", ref, NoArgs)

Type(ref, text, clear, keyEvents) ==
    RefOp("type", ref, [NoArgs EXCEPT !.text = text, !.clear = clear, !.keyEvents = keyEvents])

Select(ref, native) == RefOp("select", ref, [NoArgs EXCEPT !.flag = native])

Drag(fromRef, toRef) ==
    /\ Idle
    /\ LET fromId == RefGet(refMap, fromRef)
           toId == RefGet(refMap, toRef)
           a == [NoArgs EXCEPT !.ref = fromRef, !.ref2 = toRef, !.node = fromId,
                               !.node2 = toId]
       IN IF DragResolved(fromId, toId)
          THEN Begin("drag", a)
          ELSE Throw("drag", a, "ReferenceUnknown")
    /\ Frame

Goto(hasButton) ==
    /\ Idle
    /\ Begin("goto", [NoArgs EXCEPT !.flag = hasButton])
    /\ Frame

\* snapshot(false): the raw text
Snapshot ==
    /\ Idle
    /\ Begin("snapshot", NoArgs)
    /\ Frame

Close ==
    /\ Idle
    /\ Begin("close", NoArgs)
    /\ Frame

\* the call goes on to step nextPc of its script, or returns after the last
Finish(result) ==
    /\ lastOp' = [name |-> opName, args |-> opArgs, result |-> result]
    /\ opName' = "idle"
    /\ opArgs' = NoArgs
    /\ opPc' = 0
    /\ UNCHANGED opSent

Advance(nextPc) ==
    LET script == Script(opName, opArgs, opts)
    IN IF nextPc > Len(script) THEN Finish("ok")
       ELSE /\ opPc' = nextPc
            /\ opSent' = IF script[nextPc].await = "response"
                         THEN Append(opSent, script[nextPc]) ELSE opSent
            /\ UNCHANGED <<opName, opArgs, lastOp>>

Running == api = "connect" /\ opName # "idle"
Step == Script(opName, opArgs, opts)[opPc]

\* a rejected send: swallowed by the try/catch around it, or thrown to the caller
Rejected(error) ==
    IF Step.skip >= 0 THEN Advance(opPc + 1 + Step.skip) ELSE Finish(error)

\* the response to the awaited command arrives (cdp.js onmessage resolves)
CommandResolves ==
    /\ Running /\ cdp = "open"
    /\ Step.await = "response"
    /\ ~(opName = "snapshot" /\ opPc = Len(ariaTreeCmds))
    /\ opName # "close"
    /\ Advance(opPc + 1)
    /\ Frame

\* an error response to the awaited command arrives (cdp.js onmessage rejects)
CommandRejects ==
    /\ Running /\ cdp = "open"
    /\ Step.await = "response"
    /\ Rejected("ProtocolError")
    /\ Frame

\* Page.loadEventFired reaches the once() listener of navigate
LoadEventFires(shown) ==
    /\ Running /\ cdp = "open"
    /\ Step.await = "event"
    /\ landed' = shown
    /\ Advance(opPc + 1)
    /\ UNCHANGED <<api, opts, browser, cdp, attached, killed, log, refMap, prevRefMap,
                   snapNodes, snapText, bvars, tvars, svars, pvars, lvars>>

\* the timer of once() fires first
LoadTimesOut ==
    /\ Running
    /\ Step.await = "event"
    /\ Finish("Timeout")
    /\ Frame

\* snapshot: Accessibility.getFullAXTree answers with nodes
RefMapMerge(old, new) ==
    [k \in DOMAIN old \cup DOMAIN new |-> IF k \in DOMAIN new THEN new[k] ELSE old[k]]
RefMapAssign(old, new) == new

SnapshotCompletes(nodes) ==
    /\ Running /\ cdp = "open"
    /\ opName = "snapshot" /\ opPc = Len(ariaTreeCmds)
    /\ ShownBy(nodes) = landed
    /\ LET result == ariaTree(nodes)
       IN /\ refMap' = RefMapAssign(refMap, result.refMap)
          /\ snapText' = formatTree(result.tree, 0)
    /\ prevRefMap' = refMap
    /\ snapNodes' = nodes
    /\ Finish("ok")
    /\ UNCHANGED <<api, opts, browser, cdp, attached, killed, log, landed, bvars, tvars, svars, pvars, lvars>>

\* browser.process.kill() when a browser was launched
Kill(proc, done) == IF proc # NoProc THEN done \cup {proc} ELSE done
KillLog(proc) == IF proc # NoProc THEN <<"kill:" \o proc>> ELSE <<>>

\* close: Target.closeTarget answered; then cdp.close() and the kill
CloseCompletes ==
    /\ Running /\ cdp = "open"
    /\ opName = "close"
    /\ log' = log \o <<"closeTarget:" \o attached, "cdp.close:" \o attached>> \o KillLog(browser)
    /\ cdp' = "closed"
    /\ killed' = Kill(browser, killed)
    /\ Finish("ok")
    /\ UNCHANGED <<api, opts, browser, attached, landed, refMap, prevRefMap, snapNodes,
                   snapText, bvars, tvars, svars, pvars, lvars>>

\* the socket fails (ws.onerror): the awaited send is rejected
SocketError ==
    /\ api = "connect" /\ cdp = "open"
    /\ cdp' = "closed"
    /\ IF opName # "idle" /\ Step.await = "response"
       THEN Rejected("TransportLost")
       ELSE UNCHANGED <<opName, opArgs, opPc, opSent, lastOp>>
    /\ UNCHANGED <<api, opts, browser, attached, killed, log, landed, refMap, prevRefMap,
                   snapNodes, snapText, bvars, tvars, svars, pvars, lvars>>

\* the browser closes the socket cleanly: no handler runs, nothing settles
SocketClose ==
    /\ api = "connect" /\ cdp = "open"
    /\ cdp' = "closed"
    /\ UNCHANGED <<api, opts, browser, attached, killed, log, landed, refMap, prevRefMap,
                   snapNodes, snapText, opName, opArgs, opPc, opSent, lastOp, bvars, tvars, svars, pvars, lvars>>

NextConnect ==
    \/ \E ref \in Refs : Click(ref)
    \/ \E ref \in Refs : Hover(ref)
    \/ \E ref \in Refs : Upload(ref)
    \/ \E ref \in Refs, clear \in BOOLEAN, keyEvents \in BOOLEAN :
          Type(ref, "a", clear, keyEvents)
    \/ \E ref \in Refs, native \in BOOLEAN : Select(ref, native)
    \/ \E fromRef \in Refs, toRef \in Refs : Drag(fromRef, toRef)
    \/ \E hasButton \in BOOLEAN : Goto(hasButton)
    \/ Snapshot
    \/ Close
    \/ CommandResolves
    \/ CommandRejects
    \/ \E shown \in {"normal", "challenge"} : LoadEventFires(shown)
    \/ LoadTimesOut
    \/ \E nodes \in PageBatches : SnapshotCompletes(nodes)
    \/ CloseCompletes
    \/ SocketError
    \/ SocketClose

(***************************************************************************)
(* browse(url, opts): the one-shot pipeline                                *)
(***************************************************************************)
\* the stages of browse() that await CDP commands, in program order; bpc
\* names the stage that is awaited next
BrowseStages ==
    <<"createPage", "suppressPermissions", "authenticate", "navigate", "dismissConsent",
      "ariaTree">>

\* stages whose rejections are caught and ignored
Swallowing == {"suppressPermissions", "authenticate"}

\* the stage after `stage`, leaving out the stages the options switch off
RECURSIVE StageAfter(_, _)
StageAfter(stage, o) ==
    LET i == CHOOSE k \in 1..Len(BrowseStages) : BrowseStages[k] = stage
        next == BrowseStages[i + 1]
    IN IF (next = "authenticate" /\ ~o.cookies) \/ (next = "dismissConsent" /\ ~o.consent)
       THEN StageAfter(next, o)
       ELSE next

InitBrowse ==
    /\ api = "browse"
    /\ opts \in [mode : Modes, consent : BOOLEAN, cookies : BOOLEAN]
    /\ browser = NoProc
    /\ cdp = "null"
    /\ attached = "none"
    /\ killed = {}
    /\ log = <<>>
    /\ landed = "normal"
    /\ refMap = <<>>
    /\ prevRefMap = <<>>
    /\ snapNodes = <<>>
    /\ snapText = <<>>
    /\ opName = "idle"
    /\ opArgs = NoArgs
    /\ opPc = 0
    /\ opSent = <<>>
    /\ lastOp = NoOp
    /\ bpc = "connect"
    /\ trees = <<>>
    /\ returned = <<>>
    /\ NoPageSession
    /\ NoFunctions

BrowseFrame ==
    UNCHANGED <<api, opts, refMap, prevRefMap, snapNodes, snapText, opName, opArgs, opPc,
                opSent, lastOp, tvars, svars, pvars, lvars>>

\* finally { if (cdp) cdp.close(); if (browser) browser.process.kill(); }
Finally(c, att, proc) ==
    /\ log' = log \o (IF c # "null" THEN <<"cdp.close:" \o att>> ELSE <<>>) \o KillLog(proc)
    /\ cdp' = IF c # "null" THEN "closed" ELSE c
    /\ killed' = Kill(proc, killed)

\* Step 1: launch() or getDebugUrl(), then createCDP()
BrowseConnect ==
    /\ api = "browse" /\ bpc = "connect"
    /\ browser' = Launched(opts.mode)
    /\ attached' = AttachedAfterConnect(opts.mode)
    /\ cdp' = "open"
    /\ log' = log \o <<IF opts.mode = "headed" THEN "getDebugUrl" ELSE "launch",
                       "createCDP:" \o AttachedAfterConnect(opts.mode)>>
    /\ bpc' = "createPage"
    /\ UNCHANGED <<killed, landed, trees, returned>>
    /\ BrowseFrame

\* Step 1 throws: launch()/getDebugUrl() rejects (browser and cdp are still
\* null, the finally block does nothing; a child that launch() spawned before
\* it rejected is followed in SpecLaunch), or createCDP() rejects after
\* launch() gave a browser
BrowseConnectFails(launched) ==
    /\ api = "browse" /\ bpc = "connect"
    /\ launched => opts.mode # "headed"
    /\ browser' = IF launched THEN Launched(opts.mode) ELSE NoProc
    /\ attached' = attached
    /\ Finally("null", attached, browser')
    /\ bpc' = "threw"
    /\ UNCHANGED <<landed, trees, returned>>
    /\ BrowseFrame

\* Steps 2 to 4.5 of either pass: the awaited stage completes
BrowseStageDone(shown) ==
    /\ api = "browse" /\ bpc \in SeqToSet(BrowseStages) \ {"ariaTree"}
    /\ cdp = "open"
    /\ landed' = IF bpc = "navigate" THEN shown ELSE landed
    /\ bpc # "navigate" => shown = "normal"
    /\ bpc' = StageAfter(bpc, opts)
    /\ UNCHANGED <<browser, cdp, attached, killed, log, trees, returned>>
    /\ BrowseFrame

\* the test of Step 5.5, which follows the first ariaTree() only: the code
\* after the fallback's own ariaTree() goes straight on to Step 6
FallbackDueEveryPass(pass, mode, tree) == mode = "hybrid" /\ isChallengePage(tree)
FallbackDue(pass, mode, tree) == pass = 1 /\ mode = "hybrid" /\ isChallengePage(tree)

\* Step 5 of either pass, and the test of Step 5.5
BrowseAriaTree(nodes) ==
    /\ api = "browse" /\ bpc = "ariaTree"
    /\ cdp = "open"
    /\ ShownBy(nodes) = landed
    /\ trees' = Append(trees, nodes)
    /\ bpc' = IF FallbackDue(Len(trees) + 1, opts.mode, ariaTree(nodes).tree)
              THEN "fallback"
              ELSE "closeTarget"
    /\ UNCHANGED <<browser, cdp, attached, killed, log, landed, returned>>
    /\ BrowseFrame

\* Step 5.5: Target.closeTarget answered; cdp.close(); kill; browser = null
BrowseTeardown ==
    /\ api = "browse" /\ bpc = "fallback"
    /\ cdp = "open"
    /\ log' = log \o <<"closeTarget:" \o attached, "cdp.close:" \o attached>> \o KillLog(browser)
    /\ cdp' = "closed"
    /\ killed' = Kill(browser, killed)
    /\ browser' = NoProc
    /\ bpc' = "reattach"
    /\ UNCHANGED <<attached, landed, trees, returned>>
    /\ BrowseFrame

\* Step 5.5: getDebugUrl(port) and createCDP(wsUrl) on the external browser
BrowseReattach ==
    /\ api = "browse" /\ bpc = "reattach"
    /\ log' = log \o <<"getDebugUrl", "createCDP:" \o External>>
    /\ cdp' = "open"
    /\ attached' = External
    /\ bpc' = "createPage"
    /\ UNCHANGED <<browser, killed, landed, trees, returned>>
    /\ BrowseFrame

\* Step 5.5: getDebugUrl or createCDP rejects; cdp is still the closed client
BrowseReattachFails ==
    /\ api = "browse" /\ bpc = "reattach"
    /\ Finally(cdp, attached, browser)
    /\ bpc' = "threw"
    /\ UNCHANGED <<browser, attached, landed, trees, returned>>
    /\ BrowseFrame

\* Step 6: the text of the last tree read (opts.prune === false)
Snapshot6(nodes) ==
    LET raw == formatTree(buildTree(nodes), 0)
    IN [stats |-> <<Len(raw), Len(raw)>>, text |-> raw]

SnapshotOfFirst(ts) == Snapshot6(ts[1])
SnapshotOfLast(ts) == Snapshot6(ts[Len(ts)])

\* Steps 6 and 7: Target.closeTarget answered, return, finally
BrowseReturns ==
    /\ api = "browse" /\ bpc = "closeTarget"
    /\ cdp = "open"
    /\ returned' = SnapshotOfLast(trees)
    /\ log' = log \o <<"closeTarget:" \o attached, "cdp.close:" \o attached>> \o KillLog(browser)
    /\ cdp' = "closed"
    /\ killed' = Kill(browser, killed)
    /\ bpc' = "returned"
    /\ UNCHANGED <<browser, attached, landed, trees>>
    /\ BrowseFrame

BrowseAwaiting == SeqToSet(BrowseStages) \cup {"fallback", "closeTarget"}

\* an awaited command is rejected (error response, or the socket failed) and
\* nothing catches it: finally, then the error reaches the caller
BrowseStageFails(socket) ==
    /\ api = "browse" /\ bpc \in BrowseAwaiting \ Swallowing
    /\ cdp = "open"
    /\ Finally(cdp, attached, browser)
    /\ bpc' = "threw"
    /\ UNCHANGED <<browser, attached, landed, trees, returned>>
    /\ BrowseFrame

\* the socket is closed by the browser, or failed inside a stage that catches
\* the rejection: the next awaited send never settles, finally never runs
BrowseStageHangs(cause) ==
    /\ api = "browse" /\ bpc \in BrowseAwaiting
    /\ cdp = "open"
    /\ cause = "error" => bpc \in Swallowing
    /\ cdp' = "closed"
    /\ bpc' = "hung"
    /\ UNCHANGED <<browser, attached, killed, log, landed, trees, returned>>
    /\ BrowseFrame

NextBrowse ==
    \/ BrowseConnect
    \/ \E launched \in BOOLEAN : BrowseConnectFails(launched)
    \/ \E shown \in {"normal", "challenge"} : BrowseStageDone(shown)
    \/ \E nodes \in PageBatches : BrowseAriaTree(nodes)
    \/ BrowseTeardown
    \/ BrowseReattach
    \/ BrowseReattachFails
    \/ BrowseReturns
    \/ \E socket \in BOOLEAN : BrowseStageFails(socket)
    \/ \E cause \in {"error", "peer"} : BrowseStageHangs(cause)

(***************************************************************************)
(* connect(): storage state and the dialog handler                         *)
(***************************************************************************)
SessionFrame == UNCHANGED <<tvars, hvars, bvars, pvars, lvars>>

\* if (opts.storageState) { try { const state = JSON.parse(readFileSync(..));
\* if (state.cookies?.length) await send('Network.setCookies') } catch {} }:
\* whatever is thrown inside is caught, nothing leaves the block
LoadStorageState(doc, sendOk) ==
    [threw |-> FALSE, cookiesSet |-> doc = "cookies" /\ sendOk]

\* connect() from the storage state to the returned handle; the listener for
\* Page.javascriptDialogOpening is registered on the way
ConnectLoadState(sendOk) ==
    /\ session.pc = "storageState"
    /\ session.storageState # "cookies" => sendOk
    /\ LET r == LoadStorageState(session.storageState, sendOk)
       IN session' = [session EXCEPT !.pc = IF r.threw THEN "failed" ELSE "ready",
                                     !.cookiesSet = r.cookiesSet]
    /\ UNCHANGED <<dialogLog, dialogAcks, now, nav, netIdle>>
    /\ SessionFrame

\* accept: params.type !== 'beforeunload'
AcceptAlways(type) == TRUE
Accept(type) == type # "beforeunload"

\* dialogLog.push(entry)
LogReplace(entries, entry) == <<entry>>
LogPush(entries, entry) == Append(entries, entry)

\* the handler of Page.javascriptDialogOpening
DialogOpening(type, message, defaultPrompt) ==
    /\ session.pc = "ready"
    /\ Len(dialogLog) < MaxDialogs
    /\ dialogLog' = LogPush(dialogLog, [type |-> type, message |-> message, timestamp |-> now])
    /\ dialogAcks' = Append(dialogAcks, [method |-> "Page.handleJavaScriptDialog",
                                         accept |-> Accept(type),
                                         promptText |-> defaultPrompt])
    /\ UNCHANGED <<session, now, nav, netIdle>>
    /\ SessionFrame

(***************************************************************************)
(* navigate(page, url, timeout)                                            *)
(***************************************************************************)
\* await loadPromise, given the state of loadPromise
AwaitLoad(n) ==
    CASE n.load = "resolved" -> [n EXCEPT !.pc = "idle", !.result = "ok"]
      [] n.load = "rejected" -> [n EXCEPT !.pc = "idle", !.result = "Timeout"]
      [] OTHER -> [n EXCEPT !.pc = "load"]

\* const loadPromise = once('Page.loadEventFired', timeout), at the step
\* where navigate() runs it: before send('Page.navigate')
OnceAfterNavigate(n, step, timeout) ==
    IF step = "response" /\ n.load = "none"
    THEN [n EXCEPT !.load = "waiting", !.timer = timeout] ELSE n
OnceBeforeNavigate(n, step, timeout) ==
    IF step = "send" THEN [n EXCEPT !.load = "waiting", !.timer = timeout] ELSE n

\* loadPromise = once('Page.loadEventFired', timeout); send('Page.navigate')
Navigate(timeout) ==
    /\ session.pc = "ready"
    /\ nav.pc = "idle" /\ nav.load # "waiting"
    /\ netIdle.state # "pending"
    /\ nav' = OnceBeforeNavigate([NoNav EXCEPT !.pc = "send"], "send", timeout)
    /\ UNCHANGED <<session, dialogLog, dialogAcks, now, netIdle>>
    /\ SessionFrame

\* the answer to Page.navigate: a result, a result with errorText (the
\* navigation failed, e.g. net::ERR_NAME_NOT_RESOLVED), or an error response.
\* The result is not looked at; an error response rejects the await and leaves
\* navigate() with loadPromise still waiting
NavigateResponds(outcome) ==
    /\ nav.pc = "send"
    /\ nav' = IF outcome = "rejected"
              THEN [nav EXCEPT !.pc = "idle", !.failed = TRUE, !.result = "ProtocolError"]
              ELSE AwaitLoad(OnceBeforeNavigate([nav EXCEPT !.failed = (outcome = "errorText")],
                                                "response", 1))
    /\ UNCHANGED <<session, dialogLog, dialogAcks, now, netIdle>>
    /\ SessionFrame

\* Page.loadEventFired comes in. With the once() callback registered:
\* clearTimeout, resolve (early: before the answer to Page.navigate). After
\* the navigate request with no listener registered, the event is lost
LoadEventFired ==
    /\ nav.load = "waiting" \/ (nav.pc = "send" /\ nav.load = "none")
    /\ LET n == [nav EXCEPT !.load = "resolved", !.timer = Off, !.early = (nav.pc = "send")]
       IN nav' = IF nav.load = "none" THEN [nav EXCEPT !.missed = TRUE]
                 ELSE IF nav.pc = "load" THEN AwaitLoad(n) ELSE n
    /\ UNCHANGED <<session, dialogLog, dialogAcks, now, netIdle>>
    /\ SessionFrame

\* the timer of once() fires: reject with Timeout
LoadTimerFires ==
    /\ nav.load = "waiting" /\ nav.timer = 0
    /\ LET n == [nav EXCEPT !.load = "rejected", !.timer = Off]
       IN nav' = IF nav.pc = "load" THEN AwaitLoad(n) ELSE n
    /\ UNCHANGED <<session, dialogLog, dialogAcks, now, netIdle>>
    /\ SessionFrame

(***************************************************************************)
(* waitForNetworkIdle(session, opts)                                       *)
(***************************************************************************)
\* resolve() and reject() of a promise that may have settled already
Settle(state, outcome) == IF state = "pending" THEN outcome ELSE state

\* check(): clearTimeout(timer); if (pending <= 0) { pending = 0; timer = setTimeout(done, idle) }
check(w) ==
    IF w.pending <= 0 THEN [w EXCEPT !.pending = 0, !.timer = w.idle]
    ELSE [w EXCEPT !.timer = Off]

\* let pending = 0: the requests of the page that are in flight at the call
\* (before) are not counted
WaitForNetworkIdle(idle, timeout, inFlight) ==
    /\ session.pc = "ready"
    /\ nav.pc = "idle"
    /\ netIdle.state # "pending" /\ netIdle.timer = Off
    /\ netIdle' = check([NoNetIdle EXCEPT !.state = "pending", !.idle = idle,
                                          !.deadlineTimer = timeout, !.listening = TRUE,
                                          !.before = inFlight])
    /\ UNCHANGED <<session, dialogLog, dialogAcks, now, nav>>
    /\ SessionFrame

\* Network.requestWillBeSent: pending++; clearTimeout(timer)
TimerKept(timer) == timer
TimerCleared(timer) == Off

RequestWillBeSent ==
    /\ netIdle.listening
    /\ netIdle.requests < MaxRequests
    /\ netIdle' = [netIdle EXCEPT !.pending = @ + 1, !.timer = TimerCleared(@),
                                  !.requests = @ + 1, !.quiet = 0]
    /\ UNCHANGED <<session, dialogLog, dialogAcks, now, nav>>
    /\ SessionFrame

\* Network.loadingFinished, Network.loadingFailed: pending--; check()
LoadingDone(event) ==
    /\ netIdle.listening
    /\ netIdle' = check([netIdle EXCEPT !.pending = @ - 1])
    /\ UNCHANGED <<session, dialogLog, dialogAcks, now, nav>>
    /\ SessionFrame

\* a request that was in flight at the call finishes or fails
EarlierLoadingDone(event) ==
    /\ netIdle.before > 0
    /\ netIdle' = IF netIdle.listening
                  THEN check([netIdle EXCEPT !.pending = @ - 1, !.before = @ - 1])
                  ELSE [netIdle EXCEPT !.before = @ - 1]
    /\ UNCHANGED <<session, dialogLog, dialogAcks, now, nav>>
    /\ SessionFrame

\* done(): clear both timers, unsubscribe, resolve()
IdleTimerFires ==
    /\ netIdle.timer = 0
    /\ netIdle' = [netIdle EXCEPT !.timer = Off, !.deadlineTimer = Off, !.listening = FALSE,
                                  !.state = Settle(@, "resolved"), !.calls = @ + 1]
    /\ UNCHANGED <<session, dialogLog, dialogAcks, now, nav>>
    /\ SessionFrame

\* the deadline timer: unsubscribe, reject(); the idle timer is left as it is
DeadlineFires ==
    /\ netIdle.deadlineTimer = 0
    /\ netIdle' = [netIdle EXCEPT !.deadlineTimer = Off, !.listening = FALSE,
                                  !.state = Settle(@, "rejected"), !.calls = @ + 1]
    /\ UNCHANGED <<session, dialogLog, dialogAcks, now, nav>>
    /\ SessionFrame

(***************************************************************************)
(* chromium.js: launch(opts), and the call that awaits it                  *)
(***************************************************************************)
\* process.pid of the processes that call launch()
Pids == {"7", "8"}

\* what the child writes to stderr, in the chunks the 'data' event delivers;
\* white space is written as a space
Chunks == {"ws://", "h:9/b ", "ws://h:9/b "}

\* the user-data-dir flag: opts.userDataDir, else a path made of the pid and
\* Date.now()
UserDataDir(userDataDir, pid, stamp) ==
    IF userDataDir # "" THEN userDataDir
    ELSE "/tmp/barebrowse-" \o pid \o "-" \o ToString(stamp)

\* stderr.match(/ws:\/\/[^\s]+/): the leftmost "ws://" that a character other
\* than white space follows, up to the next white space; "" for no match
Match(str) ==
    LET starts == {i \in 1..Len(str) : /\ StartsAt(str, "ws://", i)
                                       /\ i + 5 <= Len(str)
                                       /\ SubSeq(str, i + 5, i + 5) # " "}
        first == CHOOSE i \in starts : \A j \in starts : i <= j
        last == CHOOSE j \in first..Len(str) :
                    /\ \A k \in first..j : SubSeq(str, k, k) # " "
                    /\ j = Len(str) \/ SubSeq(str, j + 1, j + 1) = " "
    IN IF starts = {} THEN "" ELSE SubSeq(str, first, last)

\* Date.now() does not go back: the last value read
LastStamp == IF launches = <<>> THEN 0 ELSE launches[Len(launches)].stamp

\* process.kill() on the child of a launch record
Killed(l) == [l EXCEPT !.killed = TRUE,
                       !.child = IF @ = "running" THEN "killed" ELSE @]

\* browse(): finally { if (cdp) cdp.close(); if (browser) browser.process.kill(); }
\* connect() has no handler: the exception leaves it as it is
Thrown(l) ==
    LET closed == [l EXCEPT !.stage = "threw", !.cdp = IF @ = "open" THEN "closed" ELSE @]
    IN IF l.by = "browse" THEN (IF l.browser THEN Killed(closed) ELSE closed)
       ELSE [l EXCEPT !.stage = "threw"]

\* resolve(match[0]): browser = await launch(...) goes on to createCDP
Resolved(l, url) ==
    IF l.state # "pending" THEN l
    ELSE [l EXCEPT !.state = "resolved", !.url = url, !.browser = TRUE,
                   !.stage = IF l.by = "launch" THEN "returned" ELSE "createCDP"]

\* reject(new Error(... stderr)): the await of launch() throws
Rejects(l, error) ==
    IF l.state # "pending" THEN l
    ELSE Thrown([l EXCEPT !.state = "rejected", !.error = error, !.carried = l.stderr])

\* the steps of connect() and browse() after launch(): createCDP, createPage,
\* suppressPermissions, then (browse only) the rest of the pipeline
StagesAfterLaunch == <<"createCDP", "createPage", "suppressPermissions", "rest">>

StageAfterLaunch(l) ==
    CASE l.stage = "createCDP" -> "createPage"
      [] l.stage = "createPage" -> "suppressPermissions"
      [] l.stage = "suppressPermissions" -> IF l.by = "connect" THEN "ready" ELSE "rest"
      [] OTHER -> "returned"

\* connect() and browse() pass no userDataDir; a caller of launch() may
LaunchCalls ==
    {[by |-> "connect", userDataDir |-> ""], [by |-> "browse", userDataDir |-> ""],
     [by |-> "launch", userDataDir |-> "/home/u/p"]}

LaunchFrame == UNCHANGED <<tvars, hvars, bvars, svars, pvars>>

\* connect() or browse() in a mode other than headed calls launch(): spawn,
\* setTimeout(..., 10000), the three listeners
Launch(by, pid, userDataDir, stamp) ==
    /\ Len(launches) < MaxLaunches
    /\ stamp >= LastStamp
    /\ launches' = Append(launches,
          [by |-> by, pid |-> pid, stamp |-> stamp,
           dir |-> UserDataDir(userDataDir, pid, stamp),
           child |-> "running", stderr |-> "", chunks |-> 0, timer |-> LaunchTimeout,
           state |-> "pending", error |-> "none", carried |-> "", url |-> "",
           started |-> now, settled |-> Off,
           stage |-> "launch", browser |-> FALSE, cdp |-> "null", killed |-> FALSE])
    /\ LaunchFrame

\* one call of launch(), followed to its end
LaunchOne(by, pid, userDataDir, stamp) ==
    /\ launches = <<>>
    /\ Launch(by, pid, userDataDir, stamp)

\* the chunks delivered so far, over all children
RECURSIVE SumChunks(_)
SumChunks(ls) == IF ls = <<>> THEN 0 ELSE Head(ls).chunks + SumChunks(Tail(ls))

\* a launch record once its promise was settled at the time now
At(l, before) == IF before.state = "pending" /\ l.state # "pending"
                 THEN [l EXCEPT !.settled = now] ELSE l

\* child.stderr.on('data'): stderr += chunk; on a match clearTimeout, resolve
StderrData(i, chunk) ==
    /\ i \in 1..Len(launches)
    /\ launches[i].child = "running"
    /\ SumChunks(launches) < MaxChunks
    /\ LET l == [launches[i] EXCEPT !.stderr = @ \o chunk, !.chunks = @ + 1]
           url == Match(l.stderr)
       IN launches' = [launches EXCEPT ![i] =
              IF url # "" THEN At(Resolved([l EXCEPT !.timer = Off], url), launches[i])
              ELSE l]
    /\ LaunchFrame

\* child.on('error'): the binary could not be started: clearTimeout, reject
ChildError(i) ==
    /\ i \in 1..Len(launches)
    /\ launches[i].child = "running" /\ launches[i].chunks = 0
    /\ launches' = [launches EXCEPT ![i] =
          At(Rejects([@ EXCEPT !.child = "failed", !.timer = Off], "error"), launches[i])]
    /\ LaunchFrame

\* child.on('exit'): clearTimeout; reject unless stderr includes 'ws://'
ChildExit(i) ==
    /\ i \in 1..Len(launches)
    /\ launches[i].child = "running"
    /\ LET l == [launches[i] EXCEPT !.child = "exited", !.timer = Off]
       IN launches' = [launches EXCEPT ![i] =
              IF ~Includes(l.stderr, "ws://") THEN At(Rejects(l, "exit"), launches[i])
              ELSE l]
    /\ LaunchFrame

\* the timer set at the spawn fires: reject with the stderr captured so far
LaunchTimerFires(i) ==
    /\ i \in 1..Len(launches)
    /\ launches[i].timer = 0
    /\ launches' = [launches EXCEPT ![i] =
          At(Rejects([@ EXCEPT !.timer = Off], "timeout"), launches[i])]
    /\ LaunchFrame

\* the awaited step of the caller completes
StageDone(i) ==
    /\ i \in 1..Len(launches)
    /\ launches[i].stage \in SeqToSet(StagesAfterLaunch)
    /\ LET l == [launches[i] EXCEPT !.stage = StageAfterLaunch(launches[i]),
                                    !.cdp = IF launches[i].stage = "createCDP"
                                            THEN "open" ELSE @]
       IN launches' = [launches EXCEPT ![i] =
              IF l.stage = "returned"
              THEN Killed([l EXCEPT !.cdp = "closed"])
              ELSE l]
    /\ LaunchFrame

\* the awaited step of the caller throws
StageFails(i) ==
    /\ i \in 1..Len(launches)
    /\ launches[i].stage \in SeqToSet(StagesAfterLaunch)
    /\ launches' = [launches EXCEPT ![i] = Thrown(@)]
    /\ LaunchFrame

(***************************************************************************)
(* Time                                                                    *)
(***************************************************************************)
\* a timer one tick later: a timer that is due stays due until it is run
Later(timer) == IF timer > 0 THEN timer - 1 ELSE timer

\* one tick passes; quiet counts the ticks since the counter of the pending
\* wait was last above zero, up to the idle threshold
Tick ==
    /\ now < MaxClock
    /\ now' = now + 1
    /\ nav' = [nav EXCEPT !.timer = Later(@)]
    /\ netIdle' = [netIdle EXCEPT
          !.timer = Later(@),
          !.deadlineTimer = Later(@),
          !.quiet = IF netIdle.state = "pending" /\ netIdle.pending <= 0 /\ @ < netIdle.idle
                    THEN @ + 1 ELSE @]
    /\ launches' = [i \in 1..Len(launches) |-> [launches[i] EXCEPT !.timer = Later(@)]]
    /\ UNCHANGED <<session, dialogLog, dialogAcks>>
    /\ UNCHANGED <<tvars, hvars, bvars, pvars>>

NextDialog ==
    \/ \E sendOk \in BOOLEAN : ConnectLoadState(sendOk)
    \/ \E type \in DialogTypes, defaultPrompt \in {"", "x"} :
          DialogOpening(type, "m", defaultPrompt)
    \/ Tick

NextWait ==
    \/ \E timeout \in 1..2 : Navigate(timeout)
    \/ \E outcome \in {"ok", "errorText", "rejected"} : NavigateResponds(outcome)
    \/ LoadEventFired
    \/ LoadTimerFires
    \/ \E idle \in 1..2, timeout \in 2..3, inFlight \in 0..1 :
          WaitForNetworkIdle(idle, timeout, inFlight)
    \/ \E event \in {"Network.loadingFinished", "Network.loadingFailed"} :
          EarlierLoadingDone(event)
    \/ RequestWillBeSent
    \/ \E event \in {"Network.loadingFinished", "Network.loadingFailed"} : LoadingDone(event)
    \/ IdleTimerFires
    \/ DeadlineFires
    \/ Tick

(***************************************************************************)
(* buildTree(nodes) on the batches a browser answers with                  *)
(***************************************************************************)
\* the raw nodes of a document: each identifier once, in any order, every
\* parent identifier absent or the identifier of another node of the batch,
\* and no node its own ancestor
RECURSIVE Ancestor(_, _, _, _)
Ancestor(parent, a, b, fuel) ==
    /\ fuel > 0
    /\ parent[b] # Absent
    /\ (parent[b] = a \/ Ancestor(parent, a, parent[b], fuel - 1))

Orders(n) == {o \in [1..n -> 1..n] : \A i, j \in 1..n : o[i] = o[j] => i = j}

Parents(n) ==
    {p \in [1..n -> {Absent} \cup 1..n] : \A id \in 1..n : ~Ancestor(p, id, id, n)}

RawBatches ==
    UNION {{[i \in 1..n |-> RawNode(o[i], p[o[i]], BackendOf(o[i]), RootKind)] :
              o \in Orders(n), p \in Parents(n)} : n \in 0..MaxRaw}

BuildTree ==
    /\ ~built.done
    /\ built' = [done |-> TRUE, tree |-> buildTree(rawBatch)]
    /\ UNCHANGED <<rawBatch, pruneIn, pruneMode, pruneOut, inputAfter>>
    /\ UNCHANGED <<tvars, hvars, bvars, svars, lvars>>

(***************************************************************************)
(* prune(tree, { mode }) on snapshot trees                                 *)
(***************************************************************************)
\* a tree node as buildTree makes it, before its identifier is given
TreeNode(role, name, level, children) ==
    [nodeId |-> NoRef, backendDOMNodeId |-> Absent, role |-> role, name |-> name,
     properties |-> [level |-> level], ignored |-> FALSE, children |-> children]

\* identifiers by position: the k-th child of node id is 10 * id + k
RECURSIVE WithIds(_, _)
WithIds(node, id) ==
    [node EXCEPT !.nodeId = id, !.backendDOMNodeId = BackendOf(id),
                 !.children = [k \in 1..Len(@) |-> WithIds(@[k], 10 * id + k)]]

Leaves ==
    {TreeNode("link", "A", Undefined, <<>>),
     TreeNode("link", "Privacy", Undefined, <<>>),
     TreeNode("button", "Buy", Undefined, <<>>),
     TreeNode("button", "Sponsored", Undefined, <<>>),
     TreeNode("StaticText", "In stock", Undefined, <<>>),
     TreeNode("heading", "Title", "1", <<>>),
     TreeNode("heading", "More", "2", <<>>)}

SeqsUpTo(set, n) == UNION {[1..k -> set] : k \in 0..n}

Boxes ==
    {TreeNode(role, "", Undefined, children) :
        role \in {"main", "generic", "group", "cell", "paragraph", "listitem"},
        children \in SeqsUpTo(Leaves, MaxChildren)}

\* lists whose items hold one link or one text each
ListItems ==
    {TreeNode("listitem", "", Undefined, <<leaf>>) :
        leaf \in {TreeNode("link", "Energy class A", Undefined, <<>>),
                  TreeNode("link", "B", Undefined, <<>>),
                  TreeNode("StaticText", "In stock", Undefined, <<>>)}}

Lists ==
    {TreeNode("list", "", Undefined, items) :
        items \in [1..MaxItems -> ListItems] \cup [1..(MaxItems - 1) -> ListItems]}

\* the page of example.com: a level-1 heading, and a paragraph that holds a
\* static text and a link
ExamplePage ==
    WithIds(TreeNode("RootWebArea", "Example Domain", Undefined,
              <<TreeNode("heading", "Example Domain", "1", <<>>),
                TreeNode("paragraph", "", Undefined,
                   <<TreeNode("StaticText", "This domain is for use in documentation examples.",
                              Undefined, <<>>),
                     TreeNode("link", "More information...", Undefined, <<>>)>>)>>), 1)

Pages ==
    {WithIds(TreeNode("RootWebArea", "", Undefined, children), 1) :
        children \in {<<box>> : box \in Boxes \cup Lists}
                     \cup {<<TreeNode("main", "", Undefined, <<box>>)>> : box \in Boxes \cup Lists}
                     \cup {<<box, leaf>> : box \in Boxes, leaf \in Leaves}}
    \cup {ExamplePage}

\* index.js: pruned = pruneTree(tree, { mode })
PruneTree ==
    /\ pruneOut = <<>>
    /\ pruneOut' = <<prune(pruneIn, pruneMode)>>
    /\ inputAfter' = Stored(pruneIn, Writes(pruneIn, pruneMode))
    /\ UNCHANGED <<rawBatch, built, pruneIn, pruneMode>>
    /\ UNCHANGED <<tvars, hvars, bvars, svars, lvars>>

\* prune called on the tree it returned
PruneAgain ==
    /\ Len(pruneOut) = 1
    /\ pruneOut' = Append(pruneOut, prune(pruneOut[1], pruneMode))
    /\ UNCHANGED <<rawBatch, built, pruneIn, pruneMode, inputAfter>>
    /\ UNCHANGED <<tvars, hvars, bvars, svars, lvars>>

(***************************************************************************)
(* Specifications                                                          *)
(***************************************************************************)
\* the transport alone: no page handle, no pipeline
IdleHandle(a) ==
    /\ api = a
    /\ opts = [mode |-> "headless", consent |-> TRUE, cookies |-> TRUE]
    /\ browser = NoProc
    /\ cdp = "null"
    /\ attached = "none"
    /\ killed = {}
    /\ log = <<>>
    /\ landed = "normal"
    /\ refMap = <<>>
    /\ prevRefMap = <<>>
    /\ snapNodes = <<>>
    /\ snapText = <<>>
    /\ opName = "idle"
    /\ opArgs = NoArgs
    /\ opPc = 0
    /\ opSent = <<>>
    /\ lastOp = NoOp
    /\ bpc = "idle"
    /\ trees = <<>>
    /\ returned = <<>>

NoIndex == IdleHandle("cdp") /\ NoPageSession /\ NoFunctions

InitTransport == InitCDP /\ NoIndex

SpecCDP == InitTransport /\ [][NextCDP]_vars

\* the listener side of the client: on, once, session views, event dispatch
SpecEvents == InitTransport /\ [][NextEvents]_vars

\* connect() from its storage-state step on, and the dialogs of the page
InitDialog ==
    /\ InitCDP
    /\ IdleHandle("connect")
    /\ session \in [pc : {"storageState"}, storageState : StorageDocs, cookiesSet : {FALSE}]
    /\ dialogLog = <<>>
    /\ dialogAcks = <<>>
    /\ now = 0
    /\ nav = NoNav
    /\ netIdle = NoNetIdle
    /\ NoFunctions

SpecDialog == InitDialog /\ [][NextDialog]_vars

\* buildTree applied to one batch
InitTree ==
    /\ InitCDP
    /\ IdleHandle("cdp")
    /\ NoPageSession
    /\ rawBatch \in RawBatches
    /\ built = NotBuilt
    /\ pruneIn = NullTree
    /\ pruneMode = "act"
    /\ pruneOut = <<>>
    /\ inputAfter = NullTree
    /\ launches = <<>>

NextTree == BuildTree

SpecTree == InitTree /\ [][NextTree]_vars

\* prune applied to one tree in one mode, then to its result
InitPrune ==
    /\ InitCDP
    /\ IdleHandle("cdp")
    /\ NoPageSession
    /\ rawBatch = <<>>
    /\ built = NotBuilt
    /\ pruneIn \in Pages
    /\ pruneMode \in PruneModes
    /\ pruneOut = <<>>
    /\ inputAfter = NullTree
    /\ launches = <<>>

NextPrune == PruneTree \/ PruneAgain

SpecPrune == InitPrune /\ [][NextPrune]_vars

\* the waits of a page handle: navigate() and waitForNetworkIdle()
InitWait ==
    /\ InitCDP
    /\ IdleHandle("connect")
    /\ session = [pc |-> "ready", storageState |-> "unset", cookiesSet |-> FALSE]
    /\ dialogLog = <<>>
    /\ dialogAcks = <<>>
    /\ now = 0
    /\ nav = NoNav
    /\ netIdle = NoNetIdle
    /\ NoFunctions

SpecWait == InitWait /\ [][NextWait]_vars

InitLaunch == InitCDP /\ NoIndex

NextLaunch ==
    \/ \E call \in LaunchCalls, pid \in Pids, stamp \in 0..MaxStamp :
          LaunchOne(call.by, pid, call.userDataDir, stamp)
    \/ \E i \in 1..MaxLaunches, chunk \in Chunks : StderrData(i, chunk)
    \/ \E i \in 1..MaxLaunches : ChildError(i)
    \/ \E i \in 1..MaxLaunches : ChildExit(i)
    \/ \E i \in 1..MaxLaunches : LaunchTimerFires(i)
    \/ \E i \in 1..MaxLaunches : StageDone(i)
    \/ \E i \in 1..MaxLaunches : StageFails(i)
    \/ Tick

SpecLaunch == InitLaunch /\ [][NextLaunch]_vars

InitProfiles == InitCDP /\ NoIndex

NextProfiles ==
    \/ \E call \in LaunchCalls, pid \in Pids, stamp \in 0..MaxStamp :
          Launch(call.by, pid, call.userDataDir, stamp)
    \/ \E i \in 1..MaxLaunches : ChildExit(i)
    \/ Tick

SpecProfiles == InitProfiles /\ [][NextProfiles]_vars

InitIndex == InitCDP /\ (InitConnect \/ InitBrowse)

NextIndex == NextConnect \/ NextBrowse

SpecIndex == InitIndex /\ [][NextIndex]_vars

(***************************************************************************)
(* Claims on the transport                                                 *)
(***************************************************************************)
\* C1: whatever the order of inbound responses and events, the promise of a
\* send is settled by an inbound message only when that message is the
\* response carrying the send's own id; the settling step removes the id from
\* the pending table; resolve/reject of one send run at most once; a step
\* that handles an event leaves every promise and the pending table alone.
\* (The only other settlement is the rejection of all pending by ws.onerror.)
C1_ResponseCorrelation ==
    [][/\ \A i \in Ids :
            /\ (promise[i] = "pending" /\ promise'[i] # "pending"
                    /\ settledBy'[i].by # "onerror")
               => /\ inbound'.id = i
                  /\ settledBy'[i] = [by |-> "response", msgId |-> i]
                  /\ i \in pending
                  /\ i \notin pending'
            /\ settleCalls'[i] <= 1
            /\ promise[i] \in {"resolved", "rejected"} => promise'[i] = promise[i]
       /\ (\E msg \in InboundMessages, thrower \in Callbacks \cup {NoThrow} :
              OnMessageEvent(msg, thrower))
          => (promise' = promise /\ pending' = pending)
      ]_vars

\* C1 witness: a later send was settled by its response while an earlier one
\* is still pending, and an event was handled after that.
C1_Witness ==
    \E i, j \in Ids :
        /\ j < i
        /\ settledBy[i] = [by |-> "response", msgId |-> i]
        /\ promise[j] = "pending"
        /\ j \in pending
        /\ inbound \in Events

\* C2: once the socket has failed (error event, or closed by the peer), no
\* send that was in flight is still pending: each one has been rejected.
C2_PendingFailOnTransportFailure ==
    (wsState = "closed" /\ closeCause \in {"error", "peer"})
    => \A i \in Ids : sentWhen[i] = "open" => (promise[i] # "pending" /\ i \notin pending)

\* C3: a call made after the transport was lost or closed fails at once: its
\* promise is rejected, it is not left pending and nothing is transmitted.
C3_CallAfterLossFailsAtOnce ==
    \A i \in Ids :
        sentWhen[i] = "closed"
        => /\ promise[i] = "rejected"
           /\ i \notin pending
           /\ \A f \in wire : f.id # i

(***************************************************************************)
(* Claims on the page handle and on browse()                               *)
(***************************************************************************)
RefOps == {"click", "type", "hover", "select", "drag", "upload"}

\* the references a call was given
RefsOf(name, args) == IF name = "drag" THEN {args.ref, args.ref2} ELSE {args.ref}

\* C4: click, type, hover, select, drag and upload given a reference that is
\* not a key of the current reference map fail with ReferenceUnknown and pass
\* no CDP command to send(); only calls whose references are all keys of the
\* map get as far as their first command.
C4_UnknownRefFails ==
    /\ (lastOp.name \in RefOps /\ ~(RefsOf(lastOp.name, lastOp.args) \subseteq DOMAIN refMap))
       => (lastOp.result = "ReferenceUnknown" /\ opSent = <<>>)
    /\ opName \in RefOps => RefsOf(opName, opArgs) \subseteq DOMAIN refMap

C4_Witness ==
    /\ lastOp.name = "drag"
    /\ lastOp.args.ref \in DOMAIN refMap
    /\ lastOp.args.ref2 \notin DOMAIN refMap
    /\ lastOp.result = "ReferenceUnknown"
    /\ opSent = <<>>

\* C5: after every snapshot() the reference map of the handle is exactly the
\* map ariaTree built from the nodes of that snapshot; a key of the earlier
\* map that the new snapshot does not produce is gone.
C5_RefMapReplaced ==
    /\ refMap = BuildRefMap(snapNodes)
    /\ (lastOp.name = "snapshot" /\ lastOp.result = "ok")
       => \A k \in DOMAIN prevRefMap : k \notin RefKeys(snapNodes) => k \notin DOMAIN refMap

C5_Witness ==
    /\ lastOp.name = "snapshot"
    /\ lastOp.result = "ok"
    /\ \E k \in DOMAIN prevRefMap : k \notin DOMAIN refMap
    /\ refMap # <<>>

\* C6: every [ref=N] token of the text the last snapshot returned is a key of
\* the reference map built by that snapshot.
C6_RefTokensAreKeys == RefTokens(snapText) \subseteq DOMAIN refMap

\* C7: once close() has settled, the page target is closed, the transport is
\* disconnected and the launched child, if there is one, has been killed.
C7_CloseTearsDown ==
    (api = "connect" /\ lastOp.name = "close")
    => /\ ("closeTarget:" \o attached) \in SeqToSet(log)
       /\ cdp = "closed" /\ ("cdp.close:" \o attached) \in SeqToSet(log)
       /\ browser # NoProc => browser \in killed

\* C8: in headed mode no browser was launched and no process is ever killed,
\* neither by close() on the page handle nor by the cleanup of browse().
C8_HeadedNeverKills ==
    opts.mode = "headed"
    => /\ browser = NoProc
       /\ killed = {}
       /\ \A i \in 1..Len(log) : log[i] \notin {"kill:" \o Child, "kill:" \o External}

C8_Witness ==
    /\ opts.mode = "headed"
    /\ api = "connect"
    /\ lastOp = [name |-> "close", args |-> NoArgs, result |-> "ok"]
    /\ cdp = "closed"

Count(seq, x) == Cardinality({i \in 1..Len(seq) : seq[i] = x})

HybridTeardown == <<"closeTarget:" \o Child, "cdp.close:" \o Child, "kill:" \o Child>>
HybridReattach == <<"getDebugUrl", "createCDP:" \o External>>

C10_GotoFallsBack ==
    (api = "connect" /\ opts.mode = "hybrid" /\ lastOp.name = "goto"
        /\ lastOp.result = "ok" /\ landed = "challenge")
    => (attached = External /\ Child \in killed)

\* C11: when the tree read after the hybrid fallback is a challenge page
\* again, browse() goes on to return it: there is no second teardown, no
\* second attachment and no third tree, and the text returned is that of the
\* second tree as it is.
C11_SecondChallengeReturned ==
    (api = "browse" /\ Len(trees) >= 2 /\ isChallengePage(buildTree(trees[2])))
    => /\ Len(trees) = 2
       /\ bpc \in {"closeTarget", "returned", "threw", "hung"}
       /\ Count(log, "closeTarget:" \o Child) = 1
       /\ Count(log, "kill:" \o Child) = 1
       /\ Count(log, "createCDP:" \o External) = 1
       /\ bpc = "returned" => returned = Snapshot6(trees[2])

C11_Witness ==
    /\ api = "browse" /\ opts.mode = "hybrid"
    /\ bpc = "returned"
    /\ Len(trees) = 2
    /\ isChallengePage(buildTree(trees[2]))
    /\ returned = Snapshot6(trees[2])
    /\ Len(returned.text) > 0

(***************************************************************************)
(* Claims on listeners, once() and session views                           *)
(***************************************************************************)
\* the callbacks registered under a key
Registered(k) == SeqToSet(listeners[k])

\* C12: the callback of a once() wait is registered exactly while the wait is
\* pending: it is gone once the event has resolved the wait and once the
\* deadline has rejected it with Timeout, so the listeners never hold more
\* once() callbacks than there are pending waits, however many waits ran.
C12_OnceRemovesListener ==
    \A w \in Waits, k \in ListenerKeys :
        (OnceCallback(w) \in Registered(k))
        <=> (waits[w].state = "waiting" /\ k = ListenerKey(waits[w].method, waits[w].sessionId))

C12_Witness ==
    /\ \E w, v \in Waits : waits[w].state = "timeout" /\ waits[v].state = "resolved"
    /\ \A k \in ListenerKeys : listeners[k] = <<>>

\* C16: an event's dispatch calls the listeners registered for its session
\* before the global listeners of its name; the session listeners get the
\* params only, the global ones get the event's session id as second argument.
C16_DispatchOrder ==
    /\ \A i, j \in 1..Len(dispatched) :
          (dispatched[i].scope # NoSession /\ dispatched[j].scope = NoSession) => i < j
    /\ \A i \in 1..Len(dispatched) :
          dispatched[i].arg2 =
              (IF dispatched[i].scope = NoSession THEN inbound.sessionId ELSE NoSession)

C16_Witness ==
    /\ Len(dispatched) = 2
    /\ inbound.sessionId \in Sessions
    /\ dispatched[1].scope = inbound.sessionId
    /\ dispatched[2] = [cb |-> "cb1", scope |-> NoSession, arg2 |-> inbound.sessionId]

\* C17: a listener registered through the view of a session is called only
\* for events that carry that session id, and a request sent through the view
\* is passed to the socket with that session id; on and once of the view
\* register under the key of that session.
C17_SessionViewScoped ==
    [][/\ \A i \in 1..Len(dispatched') :
             dispatched'[i].scope # NoSession => dispatched'[i].scope = inbound'.sessionId
       /\ \A s \in Sessions, m \in Commands :
             SessionSend(s, m)
             => [id |-> nextId, method |-> m, sessionId |-> s] \in wire'
       /\ \A s \in Sessions, m \in EventMethods :
             (SessionOnce(s, m) \/ \E cb \in Callbacks : SessionOn(s, m, cb))
             => /\ Len(listeners'[ListenerKey(m, s)]) = Len(listeners[ListenerKey(m, s)]) + 1
                /\ \A k \in ListenerKeys \ {ListenerKey(m, s)} : listeners'[k] = listeners[k]
      ]_vars

C17_Witness ==
    /\ inbound.sessionId = "S1"
    /\ \E i \in 1..Len(dispatched) : dispatched[i].scope = "S1"
    /\ listeners[ListenerKey("Page.loadEventFired", "S2")] # <<>>
    /\ \E f \in wire : f.sessionId = "S2"

(***************************************************************************)
(* Claims on the page session: dialogs, waits, navigation, storage state   *)
(***************************************************************************)
Settled == {"resolved", "rejected"}

\* C13: waitForNetworkIdle resolves only after the in-flight count has been
\* at or below zero for idle ms without a break, rejects when its deadline
\* is the timer that runs while it is pending, and once settled keeps its
\* outcome whatever timer runs later.
C13_IdleOrDeadline ==
    [][/\ (netIdle.state = "pending" /\ netIdle'.state = "resolved")
            => (netIdle.quiet >= netIdle.idle /\ netIdle.pending <= 0)
       /\ (netIdle.state = "pending" /\ netIdle.deadlineTimer = 0
              /\ netIdle'.deadlineTimer = Off /\ netIdle'.timer = netIdle.timer)
            => netIdle'.state = "rejected"
       /\ (netIdle.state = "pending" /\ netIdle'.state = "rejected")
            => netIdle.deadlineTimer = 0
       /\ netIdle.state \in Settled
            => (netIdle'.state = netIdle.state
                \/ (netIdle'.state = "pending" /\ netIdle'.calls = 0))]_vars

\* a wait that saw requests start and finish, and resolved
C13_Witness ==
    /\ netIdle.state = "resolved"
    /\ netIdle.requests > 0
    /\ netIdle.idle = 2

\* C14: every dialog that opened has been answered, in order, with accept
\* for every type except beforeunload, which is declined.
C14_DialogsAcknowledged ==
    /\ Len(dialogAcks) = Len(dialogLog)
    /\ \A i \in 1..Len(dialogLog) :
          /\ dialogAcks[i].method = "Page.handleJavaScriptDialog"
          /\ dialogAcks[i].accept = (dialogLog[i].type # "beforeunload")

C14_Witness ==
    /\ Len(dialogLog) = 2
    /\ dialogLog[1].type = "beforeunload" /\ ~dialogAcks[1].accept
    /\ dialogLog[2].type = "confirm" /\ dialogAcks[2].accept

\* C15: the dialog log only grows at its end: each opening adds exactly one
\* entry with the type, the message and the time of the opening, and leaves
\* the entries before it as they were.
C15_LogAppendOnly ==
    [][(dialogLog' # dialogLog \/ dialogAcks' # dialogAcks)
         => /\ Len(dialogLog') = Len(dialogLog) + 1
            /\ SubSeq(dialogLog', 1, Len(dialogLog)) = dialogLog
            /\ dialogLog'[Len(dialogLog')].timestamp = now
            /\ dialogLog'[Len(dialogLog')].type \in DialogTypes
            /\ dialogLog'[Len(dialogLog')].message = "m"]_vars

C15_Witness ==
    /\ Len(dialogLog) = 2
    /\ dialogLog[1].type = "alert" /\ dialogLog[2].type = "prompt"
    /\ dialogLog[1].timestamp < dialogLog[2].timestamp

\* C18: a goto() that failed on a rejected command failed on Page.navigate,
\* never on a command of the consent dismissal.
C18_ConsentNeverFailsGoto ==
    (lastOp.name = "goto" /\ lastOp.result = "ProtocolError" /\ opSent # <<>>)
        => opSent[Len(opSent)].method = "Page.navigate"

\* C19: a navigation whose Page.navigate failed ends with NavigationFailed.
C19_NavigationFailed ==
    (nav.pc = "idle" /\ nav.failed) => nav.result = "NavigationFailed"

\* C20: connect() does not hand out a page handle when the storage-state
\* document cannot be parsed.
C20_InvalidStateRaises ==
    session.storageState = "invalid" => session.pc # "ready"

(***************************************************************************)
(* Claims on click and drag                                                *)
(***************************************************************************)
\* the call of `name` that is running or was the last to end, if any
CallOf(name) ==
    IF opName = name THEN opArgs
    ELSE IF lastOp.name = name /\ lastOp.result # "ReferenceUnknown" THEN lastOp.args
    ELSE NoArgs

\* step is Input.dispatchMouseEvent of this type at the middle of the content
\* quads of the two nodes (of one node when both are the same)
MouseAtMiddle(step, kind, nodeA, nodeB) ==
    LET a == BoxModel(nodeA)
        b == BoxModel(nodeB)
    IN /\ step.method = "Input.dispatchMouseEvent"
       /\ step.type = kind
       /\ 4 * step.at.x = a[1] + a[5] + b[1] + b[5]
       /\ 4 * step.at.y = a[2] + a[6] + b[2] + b[6]

LeftOnce(step) == step.button = "left" /\ step.clickCount = 1

\* C21: the commands a click has sent are, in order: scrollIntoViewIfNeeded
\* and getBoxModel for the node, then mouse pressed and mouse released with
\* button left and click count 1 at the midpoint of the node's box.
C21_ClickSequence ==
    LET node == CallOf("click").node
    IN node # Absent =>
         /\ Len(opSent) <= 4
         /\ \A i \in 1..Len(opSent) :
               CASE i = 1 -> opSent[i].method = "DOM.scrollIntoViewIfNeeded"
                             /\ opSent[i].node = node
                 [] i = 2 -> opSent[i].method = "DOM.getBoxModel" /\ opSent[i].node = node
                 [] i = 3 -> MouseAtMiddle(opSent[i], "mousePressed", node, node)
                             /\ LeftOnce(opSent[i])
                 [] OTHER -> MouseAtMiddle(opSent[i], "mouseReleased", node, node)
                             /\ LeftOnce(opSent[i])

C21_Witness ==
    /\ lastOp.name = "click" /\ lastOp.result = "ok"
    /\ Len(opSent) = 4

\* C22: the commands a drag has sent are, in order: the two midpoint
\* computations (source, then target), mouse pressed at the source midpoint,
\* mouse moved to the point halfway between the two midpoints, mouse moved
\* to the target midpoint, mouse released at the target midpoint.
C22_DragSequence ==
    LET from == CallOf("drag").node
        to == CallOf("drag").node2
    IN from # Absent =>
         /\ Len(opSent) <= 8
         /\ \A i \in 1..Len(opSent) :
               CASE i = 1 -> opSent[i].method = "DOM.scrollIntoViewIfNeeded"
                             /\ opSent[i].node = from
                 [] i = 2 -> opSent[i].method = "DOM.getBoxModel" /\ opSent[i].node = from
                 [] i = 3 -> opSent[i].method = "DOM.scrollIntoViewIfNeeded"
                             /\ opSent[i].node = to
                 [] i = 4 -> opSent[i].method = "DOM.getBoxModel" /\ opSent[i].node = to
                 [] i = 5 -> MouseAtMiddle(opSent[i], "mousePressed", from, from)
                             /\ LeftOnce(opSent[i])
                 [] i = 6 -> MouseAtMiddle(opSent[i], "mouseMoved", from, to)
                 [] i = 7 -> MouseAtMiddle(opSent[i], "mouseMoved", to, to)
                 [] OTHER -> MouseAtMiddle(opSent[i], "mouseReleased", to, to)
                             /\ LeftOnce(opSent[i])

C22_Witness ==
    /\ lastOp.name = "drag" /\ lastOp.result = "ok"
    /\ Len(opSent) = 8
    /\ lastOp.args.node # lastOp.args.node2

(***************************************************************************)
(* Claims on buildTree                                                     *)
(***************************************************************************)
\* the (parent, child) identifier pairs of a tree, in preorder
RECURSIVE EdgesOf(_)
RECURSIVE EdgesBelow(_, _)
EdgesBelow(id, children) ==
    IF children = <<>> THEN <<>>
    ELSE <<<<id, Head(children).nodeId>>>> \o EdgesOf(Head(children))
         \o EdgesBelow(id, Tail(children))
EdgesOf(node) == EdgesBelow(node.nodeId, node.children)

Parentless(nodes) == {i \in 1..Len(nodes) : nodes[i].parentId = Absent}

NodesOf(tree) == IF tree = NullTree THEN <<>> ELSE flatten(<<tree>>)
LinesOf(tree) == formatTree(tree, 0)

\* C24: in act mode every interactive node of the regions extracted from the
\* input (main among them) is in the output with its role, its name and its
\* identifier.
C24_InteractiveKept ==
    (pruneMode = "act" /\ Len(pruneOut) >= 1) =>
        LET inside == flatten(extractRegions(pruneIn, MODE_REGIONS("act")))
            out == NodesOf(pruneOut[1])
        IN \A i \in 1..Len(inside) :
              inside[i].role \in INTERACTIVE =>
                  \E j \in 1..Len(out) :
                      /\ out[j].nodeId = inside[i].nodeId
                      /\ out[j].role = inside[i].role
                      /\ out[j].name = inside[i].name

\* C25: prune applied to the tree it returned returns that tree again.
C25_Idempotent ==
    Len(pruneOut) = 2 => pruneOut[2] = pruneOut[1]

\* C26: no line written for a pruned tree has a role among generic, group,
\* list, row, cell together with an empty name.
C26_NoEmptyWrappers ==
    \A n \in 1..Len(pruneOut) :
        LET lines == LinesOf(pruneOut[n])
        IN \A k \in 1..Len(lines) :
              ~(lines[k].role \in {"generic", "group", "list", "row", "cell"}
                /\ lines[k].name = "")

\* an unnamed generic whose two children stay
C26_Witness ==
    /\ Len(pruneOut) >= 1
    /\ pruneOut[1] # NullTree
    /\ Len(pruneIn.children) = 1
    /\ pruneIn.children[1].role = "generic"
    /\ Len(pruneIn.children[1].children) = 2
    /\ Len(pruneOut[1].children) = 2
    /\ pruneOut[1].nodeId = pruneIn.children[1].nodeId

\* C27: no line is written for a node whose role is _promote.
C27_PromoteTransparent ==
    \A n \in 1..Len(pruneOut) :
        LET lines == LinesOf(pruneOut[n])
        IN \A k \in 1..Len(lines) : lines[k].role # "_promote"

\* C28: the act output for a list of items holds at most one link of any one
\* name (the 20 items of which 10 hold the link, at the size of MaxItems).
C28_OneLinkPerName ==
    (pruneMode = "act" /\ Len(pruneOut) >= 1) =>
        LET out == NodesOf(pruneOut[1])
        IN \A i, j \in 1..Len(out) :
              (out[i].role = "link" /\ out[j].role = "link" /\ out[i].name = out[j].name)
                  => i = j

\* C29: in browse, navigate and full mode prune returns what its steps 1 to
\* 4 leave: the noise passes take nothing away.
C29_NoiseActOnly ==
    (pruneMode # "act" /\ Len(pruneOut) >= 1) =>
        pruneOut[1] = Wrapped(Cleaned(pruneIn, pruneMode))

\* C30: for the example page the act output is the heading line and the link
\* line with its reference, and the browse output has the paragraph as well.
C30_ExamplePage ==
    (pruneIn = ExamplePage /\ Len(pruneOut) >= 1) =>
        LET lines == LinesOf(pruneOut[1])
            roles == [k \in 1..Len(lines) |-> lines[k].role]
        IN /\ pruneMode = "act" =>
                /\ roles = <<"heading", "link">>
                /\ lines[2].ref # NoRef
           /\ pruneMode = "browse" =>
                {"heading", "paragraph", "link"} \subseteq {roles[k] : k \in 1..Len(roles)}

C32_UrlWithinTimeout ==
    \A i \in 1..Len(launches) :
        LET l == launches[i]
        IN /\ l.state = "resolved" => (l.url # "" /\ l.settled - l.started <= LaunchTimeout)
           /\ l.state = "pending" => l.timer # Off
           /\ (l.state = "rejected" /\ l.error = "timeout") => l.carried = l.stderr

\* C33: two launches that were given no user-data directory never get the
\* same one.
C33_UniqueProfile ==
    \A i, j \in 1..Len(launches) :
        (i # j /\ launches[i].by # "launch" /\ launches[j].by # "launch")
            => launches[i].dir # launches[j].dir

\* C36: when browse() has returned or thrown, its transport is not open and
\* the child it launched is not running.
C36_BrowseCleansUp ==
    \A i \in 1..Len(launches) :
        (launches[i].by = "browse" /\ launches[i].stage \in {"returned", "threw"})
            => (launches[i].cdp # "open" /\ launches[i].child # "running")

\* C37: when connect() has thrown after the child was spawned, the child is
\* not running.
C37_ConnectFailureKills ==
    \A i \in 1..Len(launches) :
        (launches[i].by = "connect" /\ launches[i].stage = "threw")
            => launches[i].child # "running"

(***************************************************************************)
(* Claims on handlers that throw                                           *)
(***************************************************************************)
\* C40: every dispatch of an event invokes all the handlers registered for
\* it, session-scoped and global, also when one of them throws.
C40_ThrowingHandlerIsolated ==
    [][(inbound' # inbound \/ dispatched' # dispatched) /\ inbound'.id = NoId
          /\ inbound'.method # NoMethod
          => Len(dispatched') = Len(Dispatch(listeners, inbound'))]_vars

(***************************************************************************)
(* Claims on the timers and listeners of the waits                         *)
(***************************************************************************)
\* C34: once waitForNetworkIdle has settled, neither of its two timers is
\* set and its three subscriptions are removed.
C34_NothingOutlivesSettlement ==
    netIdle.state \in Settled =>
        (netIdle.timer = Off /\ netIdle.deadlineTimer = Off /\ ~netIdle.listening)

\* C35: from the moment Page.navigate is sent the load listener is
\* registered: no load event is lost, and one that comes in before the
\* answer to Page.navigate completes the wait (navigate neither waits on nor
\* times out).
C35_LoadNeverMissed ==
    /\ ~nav.missed
    /\ nav.pc = "send" => nav.load # "none"
    /\ nav.early => (nav.pc # "load" /\ nav.result # "Timeout")

\* the load event came in before the answer, and navigate() completed
C35_Witness ==
    /\ nav.early
    /\ nav.pc = "idle"
    /\ nav.result = "ok"

\* C38: when navigate() has failed on a rejected Page.navigate, its load
\* listener is removed and its timer is cancelled.
C38_FailedNavigateUnsubscribes ==
    (nav.pc = "idle" /\ nav.result = "ProtocolError") =>
        (nav.load # "waiting" /\ nav.timer = Off)

\* C39: waitForNetworkIdle is not resolved while a request that was in
\* flight at the call is unfinished.
C39_WaitsForEarlierRequests ==
    netIdle.state = "resolved" => netIdle.before = 0

====
